---------------------------- MODULE Spec2Model ----------------------------
(***************************************************************************)
(* RemotePad bridge (src/remote-pad.ts): evdev controllers are read,       *)
(* normalised into a canonical pad state, multiplexed over four pad slots  *)
(* and forwarded to a console over an auto-reconnecting WebSocket.         *)
(*                                                                         *)
(* The process is single threaded: every handler (HTTP request, stream     *)
(* callback, socket listener, timer) runs to completion, so each handler   *)
(* is one action.  What is asynchronous is the delivery of callbacks: a    *)
(* destroyed read stream emits 'close' in a later turn of the event loop,  *)
(* a socket emits 'open'/'close' later, a timer fires later.               *)
(***************************************************************************)
EXTENDS Integers, Sequences, FiniteSets, TLC

(***************************************************************************)
(* Evdev constants (src/remote-pad.ts:24-37)                               *)
(***************************************************************************)
EV_SYN == 0
EV_KEY == 1
EV_ABS == 3

BTN_SOUTH == 304
BTN_EAST == 305
BTN_C == 306
BTN_NORTH == 307
BTN_WEST == 308
BTN_TL == 310
BTN_TR == 311
BTN_TL2 == 312
BTN_TR2 == 313
BTN_SELECT == 314
BTN_START == 315
BTN_MODE == 316
BTN_THUMBL == 317
BTN_THUMBR == 318
BTN_DPAD_UP == 544
BTN_DPAD_DOWN == 545
BTN_DPAD_LEFT == 546
BTN_DPAD_RIGHT == 547

ABS_X == 0
ABS_Y == 1
ABS_Z == 2
ABS_RX == 3
ABS_RY == 4
ABS_RZ == 5
ABS_GAS == 9
ABS_BRAKE == 10
ABS_HAT0X == 16
ABS_HAT0Y == 17

(***************************************************************************)
(* ORBIS button bitmask (src/remote-pad.ts:43-49)                          *)
(***************************************************************************)
ORBIS_SHARE == 1
ORBIS_L3 == 2
ORBIS_R3 == 4
ORBIS_OPTIONS == 8
ORBIS_UP == 16
ORBIS_RIGHT == 32
ORBIS_DOWN == 64
ORBIS_LEFT == 128
ORBIS_L2 == 256
ORBIS_R2 == 512
ORBIS_L1 == 1024
ORBIS_R1 == 2048
ORBIS_TRIANGLE == 4096
ORBIS_CIRCLE == 8192
ORBIS_CROSS == 16384
ORBIS_SQUARE == 32768
ORBIS_TOUCHPAD == 1048576

\* BUTTON_MAP: evdev key code -> ORBIS bit; BTN_C has no entry.
BUTTON_MAP ==
  (BTN_SOUTH :> ORBIS_CROSS) @@ (BTN_EAST :> ORBIS_CIRCLE) @@
  (BTN_WEST :> ORBIS_TRIANGLE) @@ (BTN_NORTH :> ORBIS_SQUARE) @@
  (BTN_TL :> ORBIS_L1) @@ (BTN_TR :> ORBIS_R1) @@
  (BTN_TL2 :> ORBIS_L2) @@ (BTN_TR2 :> ORBIS_R2) @@
  (BTN_SELECT :> ORBIS_SHARE) @@ (BTN_START :> ORBIS_OPTIONS) @@
  (BTN_MODE :> ORBIS_TOUCHPAD) @@
  (BTN_THUMBL :> ORBIS_L3) @@ (BTN_THUMBR :> ORBIS_R3) @@
  (BTN_DPAD_UP :> ORBIS_UP) @@ (BTN_DPAD_DOWN :> ORBIS_DOWN) @@
  (BTN_DPAD_LEFT :> ORBIS_LEFT) @@ (BTN_DPAD_RIGHT :> ORBIS_RIGHT)

(***************************************************************************)
(* Bit operations on the button mask.  A mask m is a single bit (a power   *)
(* of two); `buttons |= m` and `buttons &= ~m` keep the numeric value that *)
(* goes on the wire.                                                       *)
(***************************************************************************)
HasBit(b, m) == (b \div m) % 2 = 1
SetBit(b, m) == IF HasBit(b, m) THEN b ELSE b + m
\* A variant that clears nothing
ClearBit_Keep(b, m) == b

ClearBit(b, m) == IF HasBit(b, m) THEN b - m ELSE b

(***************************************************************************)
(* PadState and freshPadState (src/remote-pad.ts:87-92, 124-126)           *)
(***************************************************************************)
freshPadState ==
  [buttons |-> 0, lx |-> 128, ly |-> 128, rx |-> 128, ry |-> 128,
   l2 |-> 0, r2 |-> 0]

(***************************************************************************)
(* detectAxisLayout (src/remote-pad.ts:207-212): absCaps is the ABS        *)
(* capability bitmask of the device.                                       *)
(***************************************************************************)
CapBit(axis) == 2 ^ axis

\* A variant that looks at ABS_GAS only
detectAxisLayout_GasOnly(absCaps) ==
  IF HasBit(absCaps, CapBit(ABS_GAS)) THEN "gas_brake" ELSE "standard"

\* A variant that takes every device for the standard layout
detectAxisLayout_Standard(absCaps) == "standard"

detectAxisLayout(absCaps) ==
  LET hasRX == HasBit(absCaps, CapBit(ABS_RX))
      hasGas == HasBit(absCaps, CapBit(ABS_GAS))
  IN IF ~hasRX /\ hasGas THEN "gas_brake" ELSE "standard"

(***************************************************************************)
(* getFallbackRanges (src/remote-pad.ts:236-246).  A range map is a        *)
(* function from the axis codes it knows to [min, max].  The test of line  *)
(* 238, vendor.toLowerCase() === "054c", holds of the two strings whose    *)
(* lower case is "054c" and of no other.                                   *)
(***************************************************************************)
getFallbackRanges(vendor) ==
  LET isSony == vendor \in {"054c", "054C"}
      stick == IF isSony THEN [min |-> 0, max |-> 255]
               ELSE [min |-> -32768, max |-> 32767]
      trig == IF isSony THEN [min |-> 0, max |-> 255]
              ELSE [min |-> 0, max |-> 1023]
      hat == [min |-> -1, max |-> 1]
  IN [a \in {ABS_X, ABS_Y, ABS_RX, ABS_RY, ABS_Z, ABS_RZ, ABS_HAT0X, ABS_HAT0Y} |->
        IF a \in {ABS_X, ABS_Y, ABS_RX, ABS_RY} THEN stick
        ELSE IF a \in {ABS_Z, ABS_RZ} THEN trig ELSE hat]

(***************************************************************************)
(* normalize (src/remote-pad.ts:248-251):                                  *)
(*   max === min -> 128, else                                              *)
(*   clamp(0, 255, Math.round((value - min) / (max - min) * 255)).         *)
(* Math.round rounds to the nearest integer, halves towards +infinity:     *)
(* round(255 n / d) = floor((510 n + d) / (2 d)), with the sign of d moved *)
(* into n when d < 0.                                                      *)
(***************************************************************************)
RoundScaled(n, d) == (510 * n + d) \div (2 * d)

Clamp255(x) == IF x < 0 THEN 0 ELSE IF x > 255 THEN 255 ELSE x

\* A variant that scales the raw value without subtracting range.min
normalize_NoOffset(value, range) ==
  IF range.max = range.min THEN 128
  ELSE Clamp255(RoundScaled(value, range.max - range.min))

normalize(value, range) ==
  IF range.max = range.min THEN 128
  ELSE LET d == range.max - range.min
           n == value - range.min
       IN Clamp255(IF d > 0 THEN RoundScaled(n, d) ELSE RoundScaled(-n, -d))

\* `r ? normalize(value, r) : value`: the raw value passes through when the
\* range map has no entry for the code.
AxisValue(ranges, code, value) ==
  IF code \in DOMAIN ranges THEN normalize(value, ranges[code]) ELSE value

\* A variant whose threshold includes 10
TriggerBit_From10(buttons, x, bit) ==
  IF x >= 10 THEN SetBit(buttons, bit) ELSE ClearBit(buttons, bit)

\* `if (x > 10) buttons |= bit; else buttons &= ~bit`
TriggerBit(buttons, x, bit) ==
  IF x > 10 THEN SetBit(buttons, bit) ELSE ClearBit(buttons, bit)

(***************************************************************************)
(* One record of the data handler's loop, EV_KEY and EV_ABS branches       *)
(* (src/remote-pad.ts:284-342).  A record is [type, code, value].          *)
(***************************************************************************)
ApplyKey(s, code, value) ==
  IF code \in DOMAIN BUTTON_MAP
  THEN [s EXCEPT !.buttons = IF value # 0 THEN SetBit(@, BUTTON_MAP[code])
                             ELSE ClearBit(@, BUTTON_MAP[code])]
  ELSE s

ApplyAbs(s, layout, ranges, code, value) ==
  LET v == AxisValue(ranges, code, value) IN
  CASE code = ABS_X -> [s EXCEPT !.lx = v]
    [] code = ABS_Y -> [s EXCEPT !.ly = v]
    [] code = ABS_RX -> [s EXCEPT !.rx = v]
    [] code = ABS_RY -> [s EXCEPT !.ry = v]
    [] code = ABS_Z ->
         IF layout = "gas_brake" THEN [s EXCEPT !.rx = v]
         ELSE [s EXCEPT !.l2 = v, !.buttons = TriggerBit(@, v, ORBIS_L2)]
    [] code = ABS_RZ ->
         IF layout = "gas_brake" THEN [s EXCEPT !.ry = v]
         ELSE [s EXCEPT !.r2 = v, !.buttons = TriggerBit(@, v, ORBIS_R2)]
    [] code = ABS_BRAKE ->
         [s EXCEPT !.l2 = v, !.buttons = TriggerBit(@, v, ORBIS_L2)]
    [] code = ABS_GAS ->
         [s EXCEPT !.r2 = v, !.buttons = TriggerBit(@, v, ORBIS_R2)]
    [] code = ABS_HAT0X ->
         LET b == ClearBit(ClearBit(s.buttons, ORBIS_LEFT), ORBIS_RIGHT)
         IN [s EXCEPT !.buttons = IF value < 0 THEN SetBit(b, ORBIS_LEFT)
                                  ELSE IF value > 0 THEN SetBit(b, ORBIS_RIGHT)
                                  ELSE b]
    [] code = ABS_HAT0Y ->
         LET b == ClearBit(ClearBit(s.buttons, ORBIS_UP), ORBIS_DOWN)
         IN [s EXCEPT !.buttons = IF value < 0 THEN SetBit(b, ORBIS_UP)
                                  ELSE IF value > 0 THEN SetBit(b, ORBIS_DOWN)
                                  ELSE b]
    [] OTHER -> s

ApplyRecord(s, layout, ranges, rec) ==
  IF rec.type = EV_KEY THEN ApplyKey(s, rec.code, rec.value)
  ELSE IF rec.type = EV_ABS THEN ApplyAbs(s, layout, ranges, rec.code, rec.value)
  ELSE s


(***************************************************************************)
(* State                                                                   *)
(***************************************************************************)
VARIABLES
  controllers,    \* state.controllers: the devices of the last scan
  pads,           \* state.pads: slot index 0..3 -> PadSlot
  streams,        \* every ReadStream created so far, by creation order
  msgCount,       \* state.msgCount
  conns,          \* every createPS4Connection closure created so far
  socks,          \* every WebSocket created so far
  ps4Connection,  \* the module variable ps4Connection (0 = null)
  ps4Connected,   \* state.ps4Connected
  uiOut,          \* messages handed to broadcastUI / an observer by the last handler
  wsOut,          \* frames written to console sockets by the last handler
  resp,           \* HTTP status answered by the last handler (0: a callback)
  calib,          \* history: what EVIOCGABS answered to the last handler
  uiClients,      \* the Set uiClients, in insertion order: observer ids
  uiSocks,        \* every UI websocket opened so far, by observer id
  synced,         \* history, per slot: the PadState as of the last reset or SYN
  nm,             \* a probe of normalize: [value, range, out, done]
  ev,             \* a probe of one reader's record handling
  rt,             \* a probe of one record written by the encoder and decoded by the reader
  mouseProc,      \* kiosk dashboard: mouseProc is not null
  eventBuf,       \* kiosk dashboard: the bytes of eventBuf
  stdin,          \* kiosk dashboard: what the last handler wrote to the helper's pipe
  cdp,            \* kiosk dashboard: the keyboard channel to the browser
  kbd,            \* kiosk dashboard page: the keyboard box [prev, clearing, open, out]
  bt,             \* bluetooth manager: pairing [inProgress, pairable, calls, agent]
  wifi            \* bluetooth manager: connection test [inProgress, file, tests, resp]

padVars == <<controllers, pads, streams, msgCount>>
connVars == <<conns, socks, ps4Connection, ps4Connected>>
outVars == <<uiOut, wsOut, resp, calib>>
uiVars == <<uiClients, uiSocks>>
histVars == <<synced>>
probeVars == <<nm, ev, rt>>
auxVars == <<kbd, bt, wifi>>
kioskVars == <<mouseProc, eventBuf, stdin, cdp, auxVars>>
vars == <<controllers, pads, streams, msgCount, conns, socks, ps4Connection,
          ps4Connected, uiOut, wsOut, resp, calib, uiClients, uiSocks,
          synced, nm, ev, rt, mouseProc, eventBuf, stdin, cdp, kbd, bt, wifi>>

Slots == 0 .. 3

\* `device: null`
NoDevice == [eventPath |-> "", vendor |-> "", absCaps |-> 0]

\* new Map(): a range map without entries
EmptyRanges == [a \in {} |-> [min |-> 0, max |-> 0]]

\* A slot as state.pads is initialised (src/remote-pad.ts:112-117)
EmptySlot ==
  [device |-> NoDevice, state |-> freshPadState, stream |-> 0,
   axisRanges |-> EmptyRanges, active |-> FALSE]

(***************************************************************************)
(* The slot operations work on a record w = [pads, streams, ui]: the slot  *)
(* array, the streams, and the messages broadcast so far by the running    *)
(* handler.                                                                *)
(***************************************************************************)
World == [pads |-> pads, streams |-> streams, ui |-> <<>>]

\* broadcastUI (src/remote-pad.ts:534-539), as seen by the handler calling it
broadcastUI(w, msg) == [w EXCEPT !.ui = Append(@, msg)]

(***************************************************************************)
(* The observers.  A UI websocket is a record [status, got, first,         *)
(* snapshots]: status is "open", "failing" (send throws) or "closed"; got  *)
(* is what the last handler sent it; first is the type of the first        *)
(* message it was ever sent ("" before any) and snapshots the number of    *)
(* fullState messages it was sent.  The loops work on a record             *)
(* o = [clients, socks].                                                   *)
(***************************************************************************)
\* uiClients.delete(client) on the insertion-ordered Set
setDelete(clients, u) == SelectSeq(clients, LAMBDA x : x # u)

\* ws.send(data) that succeeds, as the receiving socket records it
received(sock, msg) ==
  [sock EXCEPT !.got = Append(@, msg),
               !.first = IF @ = "" THEN msg.type ELSE @,
               !.snapshots = IF msg.type = "fullState" THEN @ + 1 ELSE @]

\* A variant of the catch clause that keeps the observer in the set
onSendError_Keep(o, u) == o

\* The catch clause of broadcastUI (src/remote-pad.ts:537)
onSendError(o, u) == [o EXCEPT !.clients = setDelete(@, u)]

\* One iteration of the loop of broadcastUI (src/remote-pad.ts:537)
trySend(o, u, msg) ==
  IF o.socks[u].status = "open"
  THEN [o EXCEPT !.socks[u] = received(@, msg)]
  ELSE onSendError(o, u)

\* The loop of broadcastUI (src/remote-pad.ts:536-538) over the observers
\* todo that the iterator has yet to visit; a Set iterator visits every
\* element present when it gets there, whatever was deleted before
RECURSIVE forEachClient(_, _, _)
forEachClient(o, todo, msg) ==
  IF todo = <<>> THEN o
  ELSE forEachClient(trySend(o, Head(todo), msg), Tail(todo), msg)

\* The broadcastUI calls of one handler, in order
RECURSIVE broadcastAll(_, _)
broadcastAll(o, msgs) ==
  IF msgs = <<>> THEN o
  ELSE broadcastAll(forEachClient(o, o.clients, Head(msgs)), Tail(msgs))

\* A variant of websocket.open that sends nothing
wsOpen_NoSnapshot(o, full) ==
  [clients |-> Append(o.clients, Len(o.socks) + 1),
   socks |-> Append(o.socks, [status |-> "open", got |-> <<>>, first |-> "",
                              snapshots |-> 0])]

\* websocket.open (src/remote-pad.ts:1131-1137): the client joins the set
\* and its socket is sent the full state
wsOpen(o, full) ==
  [clients |-> Append(o.clients, Len(o.socks) + 1),
   socks |-> Append(o.socks, received([status |-> "open", got |-> <<>>, first |-> "",
                                       snapshots |-> 0], full))]

\* websocket.close (src/remote-pad.ts:1142-1145)
wsClosed(o, u) ==
  [clients |-> setDelete(o.clients, u),
   socks |-> [o.socks EXCEPT ![u].status = "closed"]]

padAssignment(i, dev) == [type |-> "padAssignment", pad |-> i, device |-> dev]

\* ReadStream.destroy(): an open stream stops delivering data and will emit
\* 'close' in a later turn, after its outstanding read has returned; on a
\* stream already destroyed (or destroyed by a failed read) it does nothing.
destroy(strs, id) ==
  [strs EXCEPT ![id].status = IF @ = "open" THEN "destroyed" ELSE @]

\* A variant of stopEvdevReader that leaves the PadState as it is
stopEvdevReader_KeepState(w, padIndex) ==
  LET slot == w.pads[padIndex]
      strs == IF slot.stream # 0 THEN destroy(w.streams, slot.stream)
              ELSE w.streams
  IN [w EXCEPT !.streams = strs,
               !.pads[padIndex].stream = 0,
               !.pads[padIndex].active = FALSE]

\* stopEvdevReader (src/remote-pad.ts:357-366)
stopEvdevReader(w, padIndex) ==
  LET slot == w.pads[padIndex]
      strs == IF slot.stream # 0 THEN destroy(w.streams, slot.stream)
              ELSE w.streams
  IN [w EXCEPT !.streams = strs,
               !.pads[padIndex].stream = 0,
               !.pads[padIndex].active = FALSE,
               !.pads[padIndex].state = freshPadState]

\* A variant of startEvdevReader: the ranges are always the vendor's fallback,
\* whatever the device answers
startEvdevReader_FallbackOnly(w, padIndex, hw) ==
  LET slot == w.pads[padIndex] IN
  IF slot.device = NoDevice \/ slot.stream # 0 THEN w
  ELSE LET ranges == getFallbackRanges(slot.device.vendor)
           layout == detectAxisLayout(slot.device.absCaps)
           id == Len(w.streams) + 1
       IN [w EXCEPT !.pads[padIndex].axisRanges = ranges,
                    !.pads[padIndex].state = freshPadState,
                    !.pads[padIndex].active = TRUE,
                    !.pads[padIndex].stream = id,
                    !.streams = Append(@, [pad |-> padIndex, status |-> "open",
                                           path |-> slot.device.eventPath,
                                           layout |-> layout, ranges |-> ranges])]

\* startEvdevReader (src/remote-pad.ts:257-276, 354); hw is what
\* detectAxisRanges returns for the device at this moment (empty when the
\* device cannot be opened or no EVIOCGABS query succeeds).
startEvdevReader(w, padIndex, hw) ==
  LET slot == w.pads[padIndex] IN
  IF slot.device = NoDevice \/ slot.stream # 0 THEN w
  ELSE LET ranges == IF DOMAIN hw = {} THEN getFallbackRanges(slot.device.vendor)
                     ELSE hw
           layout == detectAxisLayout(slot.device.absCaps)
           id == Len(w.streams) + 1
       IN [w EXCEPT !.pads[padIndex].axisRanges = ranges,
                    !.pads[padIndex].state = freshPadState,
                    !.pads[padIndex].active = TRUE,
                    !.pads[padIndex].stream = id,
                    !.streams = Append(@, [pad |-> padIndex, status |-> "open",
                                           path |-> slot.device.eventPath,
                                           layout |-> layout, ranges |-> ranges])]

\* The 'close' listener of a reader of slot padIndex (src/remote-pad.ts:352)
onStreamClose(w, padIndex) ==
  [w EXCEPT !.pads[padIndex].stream = 0, !.pads[padIndex].active = FALSE]

\* A variant of assignVacate: the device's previous slot is not looked for
assignVacate_Skip(w, i, eventPath) == w

\* /api/assign, "Unassign from previous pad if any" (src/remote-pad.ts:1083-1090),
\* the loop from slot i on
RECURSIVE assignVacate(_, _, _)
assignVacate(w, i, eventPath) ==
  IF i > 3 THEN w
  ELSE IF w.pads[i].device # NoDevice /\ w.pads[i].device.eventPath = eventPath
       THEN LET w1 == stopEvdevReader(w, i)
                w2 == [w1 EXCEPT !.pads[i].device = NoDevice]
            IN assignVacate(broadcastUI(w2, padAssignment(i, NoDevice)), i + 1, eventPath)
       ELSE assignVacate(w, i + 1, eventPath)

\* /api/assign once the request is accepted (src/remote-pad.ts:1083-1102)
assign(w, padIndex, dev, hw) ==
  LET w1 == assignVacate(w, 0, dev.eventPath)
      w2 == IF w1.pads[padIndex].device # NoDevice
            THEN stopEvdevReader(w1, padIndex) ELSE w1
      w3 == [w2 EXCEPT !.pads[padIndex].device = dev]
      w4 == startEvdevReader(w3, padIndex, hw)
  IN broadcastUI(w4, padAssignment(padIndex, dev))

\* /api/unassign once the request is accepted (src/remote-pad.ts:1112-1114)
unassign(w, padIndex) ==
  LET w1 == stopEvdevReader(w, padIndex)
      w2 == [w1 EXCEPT !.pads[padIndex].device = NoDevice]
  IN broadcastUI(w2, padAssignment(padIndex, NoDevice))

\* The controller scan, "Stop readers for disconnected controllers"
\* (src/remote-pad.ts:591-599), the loop from slot i on
RECURSIVE scanVacate(_, _, _)
scanVacate(w, i, currPaths) ==
  IF i > 3 THEN w
  ELSE IF w.pads[i].device # NoDevice /\ w.pads[i].device.eventPath \notin currPaths
       THEN LET w1 == stopEvdevReader(w, i)
                w2 == [w1 EXCEPT !.pads[i].device = NoDevice]
            IN scanVacate(broadcastUI(w2, padAssignment(i, NoDevice)), i + 1, currPaths)
       ELSE scanVacate(w, i + 1, currPaths)

\* A variant of the scan that refreshes the device record of every slot
\* whose event path was scanned again
scan_Refresh(w, prev, curr) ==
  [w EXCEPT !.pads = [i \in Slots |->
     IF \E c \in curr : c.eventPath = w.pads[i].device.eventPath
     THEN [w.pads[i] EXCEPT !.device =
             CHOOSE c \in curr : c.eventPath = w.pads[i].device.eventPath]
     ELSE w.pads[i]]]

\* The controller scan (src/remote-pad.ts:572-601) with prev = the previous
\* list and curr = what detectControllers returned
scan(w, prev, curr) ==
  LET prevPaths == {c.eventPath : c \in prev}
      currPaths == {c.eventPath : c \in curr}
      changed == \/ Cardinality(prev) # Cardinality(curr)
                 \/ \E p \in prevPaths : p \notin currPaths
                 \/ \E p \in currPaths : p \notin prevPaths
  IN IF changed
     THEN scanVacate(broadcastUI(w, [type |-> "controllers", controllers |-> curr]),
                     0, currPaths)
     ELSE w


(***************************************************************************)
(* Console RPC client: createPS4Connection (src/remote-pad.ts:372-466).    *)
(* A connection closure is a record                                        *)
(*   [host, ws, open, rpcId, pending, reconnectTimer, intentionallyClosed] *)
(* with pending the ids of the pending map, infoTimers the ids whose       *)
(* getInfo timeout is set and neither fired nor cleared, and completed the *)
(* history of resolve calls <<id, result>> of the getInfo promises,        *)
(* plus timers, the number of its setTimeout callbacks not yet fired or    *)
(* cleared, and attempts, the number of times its connect() has run (a     *)
(* history counter, not read by the program).  ws is the index in socks of *)
(* the socket the closure's `ws` refers to (0 = null).  A socket is        *)
(* [conn, status], status one of connecting, open, closing (close() was    *)
(* called, the close event is outstanding) and closed.                     *)
(* The operations work on a record k = [conns, socks, connected, ui, ws]:  *)
(* connected is state.ps4Connected, ui the messages broadcast and ws the   *)
(* frames sent by the running handler.                                     *)
(***************************************************************************)
Net == [conns |-> conns, socks |-> socks, connected |-> ps4Connected,
        ui |-> <<>>, ws |-> <<>>]

\* `new WebSocket(url)` throws when the url cannot be parsed
BadHost == "bad host"
WebSocketThrows(host) == host = BadHost

netBroadcast(k, msg) == [k EXCEPT !.ui = Append(@, msg)]

\* scheduleReconnect (src/remote-pad.ts:428-434): the setTimeout call
scheduleReconnect(k, c) ==
  IF k.conns[c].intentionallyClosed \/ k.conns[c].reconnectTimer THEN k
  ELSE [k EXCEPT !.conns[c].reconnectTimer = TRUE,
                 !.conns[c].timers = @ + 1]

\* connect (src/remote-pad.ts:381-389); the listeners it registers are
\* onOpen and onClose below
connect(k, c) ==
  LET k1 == [k EXCEPT !.conns[c].attempts = @ + 1] IN
  IF WebSocketThrows(k.conns[c].host) THEN scheduleReconnect(k1, c)
  ELSE [k1 EXCEPT !.socks = Append(@, [conn |-> c, status |-> "connecting"]),
                  !.conns[c].ws = Len(k.socks) + 1]

\* A variant of getInfo that does not advance the id counter
getInfo_SameId(k, c) ==
  IF ~k.conns[c].open \/ k.conns[c].ws = 0 THEN k
  ELSE [k EXCEPT !.conns[c].pending = @ \cup {k.conns[c].rpcId},
                 !.conns[c].infoTimers = @ \cup {k.conns[c].rpcId},
                 !.ws = Append(@, [sock |-> k.conns[c].ws, method |-> "info",
                                   id |-> k.conns[c].rpcId, params |-> <<>>])]

\* getInfo up to its first suspension (src/remote-pad.ts:436-443): the
\* request is registered and sent
getInfo(k, c) ==
  IF ~k.conns[c].open \/ k.conns[c].ws = 0 THEN k
  ELSE [k EXCEPT !.conns[c].rpcId = @ + 1,
                 !.conns[c].pending = @ \cup {k.conns[c].rpcId},
                 !.conns[c].infoTimers = @ \cup {k.conns[c].rpcId},
                 !.ws = Append(@, [sock |-> k.conns[c].ws, method |-> "info",
                                   id |-> k.conns[c].rpcId, params |-> <<>>])]

\* The continuation of getInfo in the open listener (src/remote-pad.ts:396-402)
\* for a promise resolved with result: a version is announced
infoThen(k, result) ==
  IF result \notin {"null", ""}
  THEN netBroadcast(k, [type |-> "ps4Version", version |-> result])
  ELSE k

\* A variant of the message listener that leaves the timeout and the map alone
onMessage_KeepPending(k, c, frame) ==
  IF frame.id # -1 /\ frame.id \in k.conns[c].pending
  THEN infoThen([k EXCEPT !.conns[c].completed = Append(@, <<frame.id, frame.result>>)],
                frame.result)
  ELSE k

\* The 'message' listener (src/remote-pad.ts:417-425) for a frame
\* [id, result]: id -1 stands for a frame without id, result for the version
\* of frame.result ("" when it has none).  The pending callback (line 441)
\* clears the timeout and resolves the promise.
onMessage(k, c, frame) ==
  IF frame.id # -1 /\ frame.id \in k.conns[c].pending
  THEN infoThen([k EXCEPT !.conns[c].infoTimers = @ \ {frame.id},
                          !.conns[c].completed = Append(@, <<frame.id, frame.result>>),
                          !.conns[c].pending = @ \ {frame.id}],
                frame.result)
  ELSE k

\* The timeout callback of getInfo (src/remote-pad.ts:440)
onInfoTimeout(k, c, id) ==
  infoThen([k EXCEPT !.conns[c].infoTimers = @ \ {id},
                     !.conns[c].pending = @ \ {id},
                     !.conns[c].completed = Append(@, <<id, "null">>)],
           "null")

\* The 'open' listener (src/remote-pad.ts:390-403) of a socket of connection c
onOpen(k, c) ==
  LET k1 == [k EXCEPT !.conns[c].open = TRUE, !.connected = TRUE]
      k2 == netBroadcast(k1, [type |-> "ps4Status", connected |-> TRUE,
                              host |-> k.conns[c].host])
  IN getInfo(k2, c)

\* A variant of the close listener that schedules no reconnect
onClose_NoReconnect(k, c) ==
  LET k1 == [k EXCEPT !.conns[c].open = FALSE, !.connected = FALSE]
  IN netBroadcast(k1, [type |-> "ps4Status", connected |-> FALSE, host |-> ""])

\* A variant of the close listener that also reconnects at once
onClose_ConnectNow(k, c) ==
  LET k1 == [k EXCEPT !.conns[c].open = FALSE, !.connected = FALSE]
      k2 == netBroadcast(k1, [type |-> "ps4Status", connected |-> FALSE, host |-> ""])
  IN IF ~k.conns[c].intentionallyClosed THEN connect(scheduleReconnect(k2, c), c) ELSE k2

\* The 'close' listener (src/remote-pad.ts:405-413) of a socket of connection c
onClose(k, c) ==
  LET k1 == [k EXCEPT !.conns[c].open = FALSE, !.connected = FALSE]
      k2 == netBroadcast(k1, [type |-> "ps4Status", connected |-> FALSE, host |-> ""])
  IN IF ~k.conns[c].intentionallyClosed THEN scheduleReconnect(k2, c) ELSE k2

\* A variant of the timer callback that does not connect
onReconnectTimer_NoConnect(k, c) ==
  [k EXCEPT !.conns[c].reconnectTimer = FALSE, !.conns[c].timers = @ - 1]

\* The reconnect timer's callback (src/remote-pad.ts:430-433)
onReconnectTimer(k, c) ==
  LET k1 == [k EXCEPT !.conns[c].reconnectTimer = FALSE,
                      !.conns[c].timers = @ - 1]
  IN IF ~k.conns[c].intentionallyClosed THEN connect(k1, c) ELSE k1

\* WebSocket.close(): a socket that is connecting or open starts closing and
\* will emit 'close' later; it never emits 'open' afterwards.
wsClose(sks, s) ==
  IF s = 0 THEN sks
  ELSE [sks EXCEPT ![s].status = IF @ \in {"connecting", "open"} THEN "closing" ELSE @]

\* A variant of close() that does not mark the closure
close_NoFlag(k, c) ==
  [k EXCEPT !.conns[c].timers = IF k.conns[c].reconnectTimer /\ @ > 0 THEN @ - 1 ELSE @,
            !.socks = wsClose(@, k.conns[c].ws),
            !.conns[c].open = FALSE,
            !.connected = FALSE]

\* The connection's close() (src/remote-pad.ts:456-463)
close(k, c) ==
  [k EXCEPT !.conns[c].intentionallyClosed = TRUE,
            !.conns[c].timers = IF k.conns[c].reconnectTimer /\ @ > 0 THEN @ - 1 ELSE @,
            !.socks = wsClose(@, k.conns[c].ws),
            !.conns[c].open = FALSE,
            !.connected = FALSE]

\* createPS4Connection (src/remote-pad.ts:372-380, 446): the new closure,
\* its first connect() made
createPS4Connection(k, host) ==
  LET c == Len(k.conns) + 1
      k1 == [k EXCEPT !.conns = Append(@,
               [host |-> host, ws |-> 0, open |-> FALSE, rpcId |-> 0, pending |-> {},
                infoTimers |-> {}, completed |-> <<>>,
                reconnectTimer |-> FALSE, timers |-> 0,
                intentionallyClosed |-> FALSE, attempts |-> 0])]
  IN connect(k1, c)

\* A variant of send without the test of open and ws
send_NoGuard(c, s, padIndex) ==
  << [sock |-> conns[c].ws, method |-> "u",
      params |-> <<padIndex, s.buttons, s.lx, s.ly, s.rx, s.ry, s.l2, s.r2, 0>>] >>

\* The connection's send (src/remote-pad.ts:449-455): the frames it writes
send(c, s, padIndex) ==
  IF ~conns[c].open \/ conns[c].ws = 0 THEN <<>>
  ELSE << [sock |-> conns[c].ws, method |-> "u",
           params |-> <<padIndex, s.buttons, s.lx, s.ly, s.rx, s.ry, s.l2, s.r2, 0>>] >>

\* `ps4Connection?.send(s, padIndex)` (src/remote-pad.ts:345)
ps4Send(s, padIndex) ==
  IF ps4Connection = 0 THEN <<>> ELSE send(ps4Connection, s, padIndex)

(***************************************************************************)
(* The reader's 'data' listener (src/remote-pad.ts:277-349) over the       *)
(* records of one buffer: the state after the buffer, the frames sent and  *)
(* the number of msgCount increments.                                      *)
(***************************************************************************)
RECURSIVE onData(_, _, _, _, _)
onData(s, layout, ranges, padIndex, buf) ==
  IF buf = <<>> THEN [state |-> s, sent |-> <<>>, count |-> 0]
  ELSE LET rec == Head(buf) IN
       IF rec.type = EV_SYN
       THEN LET rest == onData(s, layout, ranges, padIndex, Tail(buf))
            IN [state |-> rest.state,
                sent |-> ps4Send(s, padIndex) \o rest.sent,
                count |-> rest.count + 1]
       ELSE onData(ApplyRecord(s, layout, ranges, rec), layout, ranges, padIndex, Tail(buf))


(***************************************************************************)
(* The kiosk dashboard's encoder for the virtual mouse helper              *)
(* (src/unnamed/part_001:17-68).  A buffer is a sequence of bytes, byte    *)
(* offset k at index k + 1.  The handlers work on a record                 *)
(* h = [proc, buf, out]: whether mouseProc is set, eventBuf, and the       *)
(* writes made to the helper's pipe so far by the running handler.         *)
(***************************************************************************)
EVENT_SIZE == 24
EV_REL == 2
SYN_REPORT == 0
REL_X == 0
REL_Y == 1
REL_WHEEL == 8
BTN_LEFT == 272
BTN_RIGHT == 273
BTN_MIDDLE == 274

\* DataView.setUint16(at, x, true): the low 16 bits, little-endian
setUint16(buf, at, x) ==
  [buf EXCEPT ![at + 1] = x % 256, ![at + 2] = (x \div 256) % 256]

\* DataView.setInt32(at, x, true): two's complement, little-endian
setInt32(buf, at, x) ==
  [buf EXCEPT ![at + 1] = x % 256,
              ![at + 2] = (x \div 256) % 256,
              ![at + 3] = (x \div 65536) % 256,
              ![at + 4] = (x \div 16777216) % 256]

\* A variant that writes the value big-endian
writeEvent_BigEndian(buf, offset, type, code, value) ==
  LET b == setInt32(buf, 20 + offset, value)
      v == [b EXCEPT ![21 + offset] = b[24 + offset], ![22 + offset] = b[23 + offset],
                     ![23 + offset] = b[22 + offset], ![24 + offset] = b[21 + offset]]
  IN setUint16(setUint16(v, 16 + offset, type), 18 + offset, code)

\* writeEvent (src/unnamed/part_001:29-33)
writeEvent(buf, offset, type, code, value) ==
  setInt32(setUint16(setUint16(buf, 16 + offset, type), 18 + offset, code),
           20 + offset, value)

\* buf.readUInt16LE(at) and buf.readInt32LE(at) of the evdev reader
readUInt16LE(buf, at) == buf[at + 1] + 256 * buf[at + 2]

readInt32LE(buf, at) ==
  buf[at + 1] + 256 * buf[at + 2] + 65536 * buf[at + 3]
    + 16777216 * (IF buf[at + 4] >= 128 THEN buf[at + 4] - 256 ELSE buf[at + 4])

\* The record at byte i of a chunk as the data handler of the evdev reader
\* decodes it (src/remote-pad.ts:279-282)
decodeRecord(buf, i) ==
  [type |-> readUInt16LE(buf, i + 16), code |-> readUInt16LE(buf, i + 18),
   value |-> readInt32LE(buf, i + 20)]

\* eventBuf.fill(0)
fill0(h) == [h EXCEPT !.buf = [j \in 1 .. Len(h.buf) |-> 0]]

\* A variant that writes the whole buffer
sendEvents_WholeBuffer(h, count) ==
  IF ~h.proc THEN h
  ELSE [h EXCEPT !.out = Append(@, h.buf)]

\* A variant without the check of mouseProc
sendEvents_NoGuard(h, count) ==
  [h EXCEPT !.out = Append(@, SubSeq(h.buf, 1, count * EVENT_SIZE))]

\* sendEvents (src/unnamed/part_001:35-38)
sendEvents(h, count) ==
  IF ~h.proc THEN h
  ELSE [h EXCEPT !.out = Append(@, SubSeq(h.buf, 1, count * EVENT_SIZE))]

\* mouseMove (src/unnamed/part_001:40-46)
mouseMove(h, dx, dy) ==
  LET b1 == writeEvent(fill0(h).buf, 0, EV_REL, REL_X, dx)
      b2 == writeEvent(b1, EVENT_SIZE, EV_REL, REL_Y, dy)
      b3 == writeEvent(b2, EVENT_SIZE * 2, EV_SYN, SYN_REPORT, 0)
  IN sendEvents([h EXCEPT !.buf = b3], 3)

\* mouseClick (src/unnamed/part_001:48-54)
mouseClick(h, button, pressed) ==
  LET btn == IF button = 1 THEN BTN_RIGHT ELSE IF button = 2 THEN BTN_MIDDLE ELSE BTN_LEFT
      b1 == writeEvent(fill0(h).buf, 0, EV_KEY, btn, pressed)
      b2 == writeEvent(b1, EVENT_SIZE, EV_SYN, SYN_REPORT, 0)
  IN sendEvents([h EXCEPT !.buf = b2], 2)

\* mouseScroll (src/unnamed/part_001:56-61)
mouseScroll(h, dy) ==
  LET b1 == writeEvent(fill0(h).buf, 0, EV_REL, REL_WHEEL, dy)
      b2 == writeEvent(b1, EVENT_SIZE, EV_SYN, SYN_REPORT, 0)
  IN sendEvents([h EXCEPT !.buf = b2], 2)

\* keyPress (src/unnamed/part_001:63-68)
keyPress(h, keycode, pressed) ==
  LET b1 == writeEvent(fill0(h).buf, 0, EV_KEY, keycode, pressed)
      b2 == writeEvent(b1, EVENT_SIZE, EV_SYN, SYN_REPORT, 0)
  IN sendEvents([h EXCEPT !.buf = b2], 2)

(***************************************************************************)
(* The kiosk dashboard's keyboard channel to the browser                   *)
(* (src/unnamed/part_001:378-451).  The channel is a record                *)
(* d = [ws, ready, cdpId, sent, socks, keys]: ws is the index in socks of  *)
(* the socket cdpKbdWs refers to (0 = null), ready is cdpKbdReady, socks   *)
(* the state ("connecting", "open", "closed") of every socket created so   *)
(* far, sent the ws.send calls of the running handler, each with the state *)
(* of its socket at the call, and keys the cdpDispatchKey and              *)
(* cdpInsertText calls made so far, each a record [op, key, pc, sock, ws,  *)
(* wait, calls]: the operation and its key name or text, where the call    *)
(* stands, the socket it created, the socket getCdpKeyboardWs gave it, the *)
(* id it awaits a response for, and the methods it has sent.  send on a    *)
(* connecting socket throws InvalidStateError; on a closed socket it       *)
(* discards the data.                                                      *)
(***************************************************************************)
\* SPECIAL_KEY_IDS (src/unnamed/part_001:1671)
SPECIAL_KEY_IDS ==
  << "Backspace", "Enter", "Delete", "Tab", "Escape", "ArrowUp", "ArrowDown",
     "ArrowLeft", "ArrowRight", "Home", "End" >>

\* The keys of CDP_SPECIAL_KEYS (src/unnamed/part_001:423-435)
CDP_SPECIAL_KEYS ==
  {"Backspace", "Enter", "Delete", "Tab", "Escape", "ArrowUp", "ArrowDown",
   "ArrowLeft", "ArrowRight", "Home", "End"}

\* A call of cdpDispatchKey or cdpInsertText that has just begun
NewCall(op, key) ==
  [op |-> op, key |-> key, pc |-> "target", sock |-> 0, ws |-> 0, wait |-> 0,
   calls |-> <<>>]

\* cdpSend (src/unnamed/part_001:380-396) by call p on the socket it was
\* given, up to the await
cdpSend(d, p, type) ==
  LET ws == d.keys[p].ws
      d1 == [d EXCEPT !.cdpId = @ + 1,
                      !.sent = Append(@, [id |-> d.cdpId, sock |-> ws,
                                          state |-> d.socks[ws], type |-> type,
                                          key |-> d.keys[p].key]),
                      !.keys[p].calls = Append(@, type)]
  IN IF d.socks[ws] = "connecting"
     THEN [d1 EXCEPT !.keys[p].pc = "threw"]
     ELSE [d1 EXCEPT !.keys[p].wait = d.cdpId,
                     !.keys[p].pc = IF type = "keyDown" THEN "awaitDown"
                                    ELSE IF type = "keyUp" THEN "awaitUp"
                                    ELSE "awaitText"]

\* cdpDispatchKey (lines 446-449) and cdpInsertText (lines 438-440) after
\* `await getCdpKeyboardWs()` gave ws (0 = null)
withWs(d, p, ws) ==
  IF ws = 0 THEN [d EXCEPT !.keys[p].pc = "returned"]
  ELSE cdpSend([d EXCEPT !.keys[p].ws = ws], p,
               IF d.keys[p].op = "key" THEN "keyDown" ELSE "insertText")

\* getCdpKeyboardWs (src/unnamed/part_001:402-420) called by call p, up to
\* its first suspension: with a ready socket it returns at once
getCdpKeyboardWs(d, p) ==
  IF d.ws # 0 /\ d.ready THEN withWs(d, p, d.ws)
  ELSE [d EXCEPT !.keys[p].pc = "target"]

\* cdpDispatchKey (src/unnamed/part_001:443-451) up to its first suspension
cdpDispatchKey(d, keyName) ==
  IF keyName \notin CDP_SPECIAL_KEYS THEN d
  ELSE getCdpKeyboardWs([d EXCEPT !.keys = Append(@, NewCall("key", keyName))],
                        Len(d.keys) + 1)

\* cdpInsertText (src/unnamed/part_001:437-441) up to its first suspension
cdpInsertText(d, text) ==
  getCdpKeyboardWs([d EXCEPT !.keys = Append(@, NewCall("text", text))],
                   Len(d.keys) + 1)

\* getCdpTarget has answered call p (lines 405-407, 415-419).  target is
\* "none" when there is no page target (or /json cannot be fetched):
\* getCdpKeyboardWs returns null; "noUrl" when the page target has a
\* webSocketDebuggerUrl that the WebSocket constructor rejects (none at
\* all, for one): the constructor throws, the catch forgets the current
\* socket and returns null; "page" when the socket is created.
onCdpTarget(d, p, target) ==
  IF target = "none" THEN withWs(d, p, 0)
  ELSE IF target = "noUrl" THEN withWs([d EXCEPT !.ws = 0, !.ready = FALSE], p, 0)
  ELSE [d EXCEPT !.socks = Append(@, "connecting"),
                 !.ws = Len(d.socks) + 1,
                 !.keys[p].sock = Len(d.socks) + 1,
                 !.keys[p].pc = "connecting"]

\* The call that created socket s and still awaits its opening (0: none)
Opener(d, s) ==
  IF \E p \in 1 .. Len(d.keys) : d.keys[p].sock = s /\ d.keys[p].pc = "connecting"
  THEN CHOOSE p \in 1 .. Len(d.keys) : d.keys[p].sock = s /\ d.keys[p].pc = "connecting"
  ELSE 0

\* onopen of socket s (line 409); the call that awaits it goes on with
\* `return cdpKbdWs` (line 414)
onCdpOpen(d, s) ==
  LET d1 == [d EXCEPT !.socks[s] = "open", !.ready = TRUE]
  IN IF Opener(d, s) # 0 THEN withWs(d1, Opener(d, s), d1.ws) ELSE d1

\* onerror and onclose of socket s that fails to connect, or onclose of an
\* open socket (lines 410-411, 415-419)
onCdpClose(d, s) ==
  LET d1 == [d EXCEPT !.socks[s] = "closed", !.ready = FALSE, !.ws = 0]
  IN IF Opener(d, s) # 0 THEN withWs(d1, Opener(d, s), 0) ELSE d1

\* The 3 s timeout of getCdpKeyboardWs for call p (lines 412, 415-419)
onCdpConnectTimeout(d, p) ==
  withWs([d EXCEPT !.ws = 0, !.ready = FALSE], p, 0)

\* The response to the awaited call arrives (lines 383-391); with an error
\* the promise is rejected and the operation ends with the exception
onCdpResponse(d, p, ok) ==
  IF ~ok THEN [d EXCEPT !.keys[p].pc = "threw"]
  ELSE IF d.keys[p].pc = "awaitDown"
  THEN cdpSend(d, p, "keyUp")
  ELSE [d EXCEPT !.keys[p].pc = "returned"]

\* The 5 s timeout of the awaited call fires (line 382)
onCdpTimeout(d, p) == [d EXCEPT !.keys[p].pc = "threw"]

(***************************************************************************)
(* The navigation routes (src/unnamed/part_001:453-476, 1556-1615) share   *)
(* cdpSend and its id counter with the keyboard channel.  Each request     *)
(* opens a socket of its own; d.navs holds the requests made so far, each  *)
(* [route, pc, wait, ok]: pc is "target", "connecting", "awaitFirst",      *)
(* "awaitSecond" or "returned", ok the ok of the answer.  In d.sent the    *)
(* socket of request n is written -n.                                      *)
(***************************************************************************)
navStart(d, route) ==
  [d EXCEPT !.navs = Append(@, [route |-> route, pc |-> "target", wait |-> 0,
                                ok |-> FALSE])]

\* getCdpTarget has answered request n (lines 455-458, 1559-1561): without
\* a page target the request is answered at once, and so it is by the catch
\* when the WebSocket constructor rejects the target's url
onNavTarget(d, n, target) ==
  [d EXCEPT !.navs[n].pc = IF target = "page" THEN "connecting" ELSE "returned"]

\* cdpSend (src/unnamed/part_001:380-396) by request n on its open socket
navSend(d, n, method, pc) ==
  [d EXCEPT !.cdpId = @ + 1,
            !.sent = Append(@, [id |-> d.cdpId, sock |-> -n, state |-> "open",
                                type |-> method, key |-> d.navs[n].route]),
            !.navs[n].wait = d.cdpId,
            !.navs[n].pc = pc]

\* onopen of the socket of request n: its first call (lines 465, 1567)
onNavOpen(d, n) ==
  navSend(d, n, IF d.navs[n].route = "navigate" THEN "Page.navigate"
                ELSE "Page.getNavigationHistory", "awaitFirst")

\* onerror or the connect timeout of request n, or the 5 s timeout or an
\* error response of its awaited call: the catch answers
onNavFail(d, n) == [d EXCEPT !.navs[n].pc = "returned", !.navs[n].ok = FALSE]

\* The response to the awaited call of request n; more tells whether the
\* history has an entry to go to (lines 1587-1589, 1607-1609)
onNavResponse(d, n, more) ==
  IF d.navs[n].pc = "awaitFirst" /\ d.navs[n].route \in {"nav-back", "nav-forward"} /\ more
  THEN navSend(d, n, "Page.navigateToHistoryEntry", "awaitSecond")
  ELSE [d EXCEPT !.navs[n].pc = "returned", !.navs[n].ok = TRUE]

(***************************************************************************)
(* The kiosk dashboard's control frames (src/unnamed/part_001:1646-1676).  *)
(* A message is a record [binary, bytes]; a frame is its sequence of       *)
(* bytes, byte offset i of the source being element i + 1.  The handler    *)
(* works on m = [h, d], the helper record of the mouse and key functions   *)
(* and the keyboard channel.                                               *)
(***************************************************************************)
\* DataView.getUint8(at)
getUint8(buf, at) == buf[at + 1]

\* DataView.getUint16(at, true)
getUint16(buf, at) == buf[at + 1] + 256 * buf[at + 2]

\* DataView.getInt16(at, true)
getInt16(buf, at) ==
  IF getUint16(buf, at) >= 32768 THEN getUint16(buf, at) - 65536
  ELSE getUint16(buf, at)

\* The UTF-8 decoder of TextDecoder over the bytes left, with seq the bytes
\* of the sequence under way, needed the number of bytes it still lacks and
\* lower .. upper the range its next byte must be in.  The text is kept as
\* its UTF-8 bytes; every ill-formed sequence becomes U+FFFD (239, 191, 189)
\* and the byte that ended it is read again.
RECURSIVE utf8Decode(_, _, _, _, _)
utf8Decode(bytes, seq, needed, lower, upper) ==
  IF bytes = <<>> THEN (IF needed # 0 THEN <<239, 191, 189>> ELSE <<>>)
  ELSE LET b == bytes[1]
           rest == Tail(bytes)
       IN IF needed = 0
          THEN IF b <= 127 THEN <<b>> \o utf8Decode(rest, <<>>, 0, 128, 191)
               ELSE IF b \in 194 .. 223 THEN utf8Decode(rest, <<b>>, 1, 128, 191)
               ELSE IF b \in 224 .. 239
               THEN utf8Decode(rest, <<b>>, 2, IF b = 224 THEN 160 ELSE 128,
                               IF b = 237 THEN 159 ELSE 191)
               ELSE IF b \in 240 .. 244
               THEN utf8Decode(rest, <<b>>, 3, IF b = 240 THEN 144 ELSE 128,
                               IF b = 244 THEN 143 ELSE 191)
               ELSE <<239, 191, 189>> \o utf8Decode(rest, <<>>, 0, 128, 191)
          ELSE IF b \notin lower .. upper
          THEN <<239, 191, 189>> \o utf8Decode(bytes, <<>>, 0, 128, 191)
          ELSE IF needed = 1
          THEN seq \o <<b>> \o utf8Decode(rest, <<>>, 0, 128, 191)
          ELSE utf8Decode(rest, seq \o <<b>>, needed - 1, 128, 191)

\* new TextDecoder().decode(new Uint8Array(buf, 1)) (line 1667): a leading
\* byte order mark is dropped, the rest decoded
decodeText(buf) ==
  LET bytes == SubSeq(buf, 2, Len(buf))
  IN IF Len(bytes) >= 3 /\ SubSeq(bytes, 1, 3) = <<239, 187, 191>>
     THEN utf8Decode(SubSeq(bytes, 4, Len(bytes)), <<>>, 0, 128, 191)
     ELSE utf8Decode(bytes, <<>>, 0, 128, 191)

\* SPECIAL_KEY_IDS[id] (line 1672): "" for id 0, undefined above 11
keyNameOf(id) == IF id \in 1 .. Len(SPECIAL_KEY_IDS) THEN SPECIAL_KEY_IDS[id] ELSE ""

\* A variant of the message handler that does not test the frame's length
\* and reads bytes that are missing as 0
message_AnyLength(m, msg) ==
  LET buf == msg.bytes \o <<0, 0, 0, 0>>
      type == getUint8(buf, 0)
  IN IF ~msg.binary THEN m
     ELSE IF Len(msg.bytes) < 1 THEN m
     ELSE IF type = 1
     THEN IF getInt16(buf, 1) # 0 \/ getInt16(buf, 3) # 0
          THEN [m EXCEPT !.h = mouseMove(@, getInt16(buf, 1), getInt16(buf, 3))]
          ELSE m
     ELSE IF type = 2
     THEN [m EXCEPT !.h = mouseClick(@, getUint8(buf, 1), getUint8(buf, 2))]
     ELSE IF type = 3
     THEN [m EXCEPT !.h = mouseScroll(@, getInt16(buf, 1))]
     ELSE IF type = 4
     THEN IF getUint16(buf, 1) > 0
          THEN [m EXCEPT !.h = keyPress(@, getUint16(buf, 1), getUint8(buf, 3))]
          ELSE m
     ELSE IF type = 5
     THEN IF decodeText(msg.bytes) # <<>>
          THEN [m EXCEPT !.d = cdpInsertText(@, decodeText(msg.bytes))]
          ELSE m
     ELSE IF type = 6
     THEN IF keyNameOf(getUint8(buf, 1)) # ""
          THEN [m EXCEPT !.d = cdpDispatchKey(@, keyNameOf(getUint8(buf, 1)))]
          ELSE m
     ELSE m

\* websocket.message (src/unnamed/part_001:1646-1676)
message(m, msg) ==
  LET buf == msg.bytes
      type == getUint8(buf, 0)
  IN IF ~msg.binary THEN m
     ELSE IF Len(buf) < 1 THEN m
     ELSE IF type = 1 /\ Len(buf) >= 5
     THEN IF getInt16(buf, 1) # 0 \/ getInt16(buf, 3) # 0
          THEN [m EXCEPT !.h = mouseMove(@, getInt16(buf, 1), getInt16(buf, 3))]
          ELSE m
     ELSE IF type = 2 /\ Len(buf) >= 3
     THEN [m EXCEPT !.h = mouseClick(@, getUint8(buf, 1), getUint8(buf, 2))]
     ELSE IF type = 3 /\ Len(buf) >= 3
     THEN [m EXCEPT !.h = mouseScroll(@, getInt16(buf, 1))]
     ELSE IF type = 4 /\ Len(buf) >= 4
     THEN IF getUint16(buf, 1) > 0
          THEN [m EXCEPT !.h = keyPress(@, getUint16(buf, 1), getUint8(buf, 3))]
          ELSE m
     ELSE IF type = 5 /\ Len(buf) > 1
     THEN IF decodeText(buf) # <<>>
          THEN [m EXCEPT !.d = cdpInsertText(@, decodeText(buf))]
          ELSE m
     ELSE IF type = 6 /\ Len(buf) >= 2
     THEN IF keyNameOf(getUint8(buf, 1)) # ""
          THEN [m EXCEPT !.d = cdpDispatchKey(@, keyNameOf(getUint8(buf, 1)))]
          ELSE m
     ELSE m

(***************************************************************************)
(* The keyboard box of the kiosk dashboard's page                          *)
(* (src/unnamed/part_001:1069-1071, 1186-1220).  A value of the box is the *)
(* sequence of its UTF-16 code units, as `length`, indexing and slice of   *)
(* the page script see it.  The box is a record k = [prev, clearing, open, *)
(* out]: kbdPrev, kbdClearing, whether riWs is open, and the frames the    *)
(* running handler sent.                                                   *)
(***************************************************************************)
CDP_TEXT == 5
CDP_KEY == 6

\* CDP_KEY_IDS (src/unnamed/part_001:1073)
CDP_KEY_IDS ==
  [Backspace |-> 1, Enter |-> 2, Delete |-> 3, Tab |-> 4, Escape |-> 5,
   ArrowUp |-> 6, ArrowDown |-> 7, ArrowLeft |-> 8, ArrowRight |-> 9,
   Home |-> 10, End |-> 11]

isHigh(u) == u \in 55296 .. 56319
isLow(u) == u \in 56320 .. 57343

\* The UTF-8 bytes of one code point
utf8(cp) ==
  IF cp < 128 THEN <<cp>>
  ELSE IF cp < 2048 THEN <<192 + (cp \div 64), 128 + (cp % 64)>>
  ELSE IF cp < 65536
  THEN <<224 + (cp \div 4096), 128 + ((cp \div 64) % 64), 128 + (cp % 64)>>
  ELSE <<240 + (cp \div 262144), 128 + ((cp \div 4096) % 64),
         128 + ((cp \div 64) % 64), 128 + (cp % 64)>>

\* new TextEncoder().encode(text) (line 1070): a surrogate pair is one code
\* point, a surrogate without its partner is replaced by U+FFFD
RECURSIVE encode(_)
encode(text) ==
  IF text = <<>> THEN <<>>
  ELSE IF isHigh(text[1]) /\ Len(text) >= 2 /\ isLow(text[2])
  THEN utf8(65536 + (text[1] - 55296) * 1024 + (text[2] - 56320))
         \o encode(SubSeq(text, 3, Len(text)))
  ELSE IF isHigh(text[1]) \/ isLow(text[1])
  THEN utf8(65533) \o encode(Tail(text))
  ELSE utf8(text[1]) \o encode(Tail(text))

\* riSend (src/unnamed/part_001:1065)
riSend(k, buf) == IF k.open THEN [k EXCEPT !.out = Append(@, buf)] ELSE k

\* riSendCdpText (src/unnamed/part_001:1070)
riSendCdpText(k, text) == riSend(k, <<CDP_TEXT>> \o encode(text))

\* riSendCdpKey (src/unnamed/part_001:1071)
riSendCdpKey(k, id) == riSend(k, <<CDP_KEY, id>>)

\* The loop of line 1200: the length of the common prefix, counted from n
RECURSIVE prefixLen(_, _, _)
prefixLen(prev, cur, n) ==
  IF n < Len(prev) /\ n < Len(cur) /\ prev[n + 1] = cur[n + 1]
  THEN prefixLen(prev, cur, n + 1)
  ELSE n

\* The loop of line 1204
RECURSIVE sendBackspaces(_, _)
sendBackspaces(k, n) ==
  IF n <= 0 THEN k
  ELSE sendBackspaces(riSendCdpKey(k, CDP_KEY_IDS.Backspace), n - 1)

\* The 'input' listener of the box (src/unnamed/part_001:1192-1211) for the
\* value cur
onInput(k, cur) ==
  IF k.clearing THEN k
  ELSE IF cur = k.prev THEN k
  ELSE LET p == prefixLen(k.prev, cur, 0)
           k1 == sendBackspaces(k, Len(k.prev) - p)
           added == SubSeq(cur, p + 1, Len(cur))
           k2 == IF added # <<>> THEN riSendCdpText(k1, added) ELSE k1
       IN [k2 EXCEPT !.prev = cur]

\* kbdSendEnter (src/unnamed/part_001:1214-1220)
kbdSendEnter(k) == [riSendCdpKey(k, CDP_KEY_IDS.Enter) EXCEPT !.prev = <<>>]

\* The 'keydown' listener of the box (src/unnamed/part_001:1222-1229): id is
\* CDP_KEY_IDS[e.key], 0 standing for undefined, and arrow tells whether
\* e.key.startsWith('Arrow'), over the key names of the DOM
onKeydown(k, key) ==
  LET id == IF key \in DOMAIN CDP_KEY_IDS THEN CDP_KEY_IDS[key] ELSE 0
      arrow == key \in {"ArrowUp", "ArrowDown", "ArrowLeft", "ArrowRight"}
  IN IF key = "Enter" THEN kbdSendEnter(k)
     ELSE IF id # 0 /\ (key = "Tab" \/ key = "Escape" \/ arrow)
     THEN riSendCdpKey(k, id)
     ELSE k

(***************************************************************************)
(* Bluetooth pairing (src/bluetooth-manager.ts:56-172, 376-498).  The      *)
(* record b = [inProgress, pairable, calls, agent, registered,             *)
(* registering] holds the set pairingInProgress, the adapter's Pairable    *)
(* property, the pairDevice calls made so far, each [dev, flow, pc,        *)
(* result, waits] with flow telling whether the call passed the guard of   *)
(* line 378, pc where it stands ("start": before Pairable is set,          *)
(* "pairing": in the steps after it, "finally": in the finally block after *)
(* line 488, "returned") and waits whether it awaits the registration      *)
(* under way, the last request made to the agent with its outcome,         *)
(* agentRegistered, and whether agentRegistering holds a promise.          *)
(***************************************************************************)
NoRequest == [dev |-> "", method |-> "", accepted |-> FALSE]

\* registerAgent (src/bluetooth-manager.ts:69-74): doRegisterAgent is started
\* unless the agent is registered or a registration is under way
registerAgent(b) ==
  IF b.registered \/ b.registering THEN b ELSE [b EXCEPT !.registering = TRUE]

\* pairDevice up to its first suspension (src/bluetooth-manager.ts:376-385)
pairDevice(b, devicePath) ==
  IF devicePath \in b.inProgress
  THEN [b EXCEPT !.calls = Append(@, [dev |-> devicePath, flow |-> FALSE,
                                      pc |-> "returned", result |-> "pairing",
                                      waits |-> FALSE])]
  ELSE [registerAgent(b) EXCEPT
          !.inProgress = @ \cup {devicePath},
          !.calls = Append(@, [dev |-> devicePath, flow |-> TRUE, pc |-> "start",
                               result |-> "", waits |-> ~b.registered])]

\* doRegisterAgent ends (lines 76-172): with ok its last bus call has set
\* Pairable false (line 164) and agentRegistered is set; otherwise one of its
\* bus calls has failed and the catch leaves both.  Either way
\* agentRegistering is reset and the calls that awaited it go on.
onRegistered(b, ok) ==
  [b EXCEPT !.pairable = IF ok THEN FALSE ELSE @,
            !.registered = IF ok THEN TRUE ELSE @,
            !.registering = FALSE,
            !.calls = [p \in DOMAIN b.calls |-> [b.calls[p] EXCEPT !.waits = FALSE]]]

\* Release of the agent (line 108)
release(b) == [b EXCEPT !.registered = FALSE]

\* Call p has set Pairable (lines 387-399)
onPairable(b, p) == [b EXCEPT !.pairable = TRUE, !.calls[p].pc = "pairing"]

\* Call p leaves the try block by a return (success or a pairing error) or
\* by an exception; the finally block runs up to its first suspension
\* (lines 404-490)
pairExit(b, p, result) ==
  [b EXCEPT !.inProgress = @ \ {b.calls[p].dev},
            !.calls[p].pc = "finally",
            !.calls[p].result = result]

\* The finally block of call p ends (lines 490-496): Pairable is reset
\* unless the bus call fails, and the call returns
pairReturn(b, p, ok) ==
  [b EXCEPT !.pairable = IF ok THEN FALSE ELSE @, !.calls[p].pc = "returned"]

\* assertPairingAllowed (src/bluetooth-manager.ts:100-105) in one of the
\* agent's RequestPinCode, RequestPasskey, RequestConfirmation and
\* RequestAuthorization (lines 109-120)
agentRequest(b, device, method) ==
  [b EXCEPT !.agent = [dev |-> device, method |-> method,
                       accepted |-> device \in b.inProgress]]

(***************************************************************************)
(* WiFi connection test (src/bluetooth-manager.ts:1807-1949).  The record  *)
(* t = [inProgress, resp] holds testInProgress and the answer of the last  *)
(* startConnectionTest ("throws" when it threw).                           *)
(***************************************************************************)
\* startConnectionTest (src/bluetooth-manager.ts:1895-1949); usable tells
\* whether there is an active network other than the one to test.  Past the
\* guards testInProgress is set (line 1908) and generateTestScript is
\* evaluated (line 1913): its template literal reads the identifier LATENCY
\* (line 1885), which nothing binds, so a ReferenceError leaves the function
\* there.  No script is written or spawned, no interval and no timer is
\* set, and nothing resets testInProgress.
startConnectionTest(t, usable) ==
  IF t.inProgress THEN [t EXCEPT !.resp = "Test already in progress"]
  ELSE IF ~usable THEN [t EXCEPT !.resp = "error"]
  ELSE [t EXCEPT !.inProgress = TRUE, !.resp = "throws"]

(***************************************************************************)
(* Bounds of the model                                                     *)
(***************************************************************************)
MaxStreams == 3     \* read streams created in one run of SpecReader, SpecReject
MaxSlotStreams == 2 \* read streams created in one run of Spec
MaxReaders == 5     \* read streams created in one run of any specification
MaxMsgCount == 2    \* synchronization records processed in one run
MaxConns == 2       \* connections created in one run
MaxAttempts == 3    \* connect() calls of one connection
MaxClients == 3     \* UI websockets opened in one run of any specification
MaxObservers == 1   \* UI websockets opened in one run of SpecReader
MaxKeys == 2        \* keyboard messages handled in one run
MaxNavs == 1        \* navigation requests made in one run
MaxCalls == 3       \* pairDevice calls made in one run

(***************************************************************************)
(* History: what the properties compare the program with                   *)
(***************************************************************************)
\* The records of buf applied in order
RECURSIVE ApplyAll(_, _, _, _)
ApplyAll(s, layout, ranges, buf) ==
  IF buf = <<>> THEN s
  ELSE ApplyAll(ApplyRecord(s, layout, ranges, Head(buf)), layout, ranges, Tail(buf))

\* The longest prefix of buf that ends with a synchronization record
RECURSIVE UpToLastSyn(_)
UpToLastSyn(buf) ==
  IF buf = <<>> THEN <<>>
  ELSE IF buf[Len(buf)].type = EV_SYN THEN buf
  ELSE UpToLastSyn(SubSeq(buf, 1, Len(buf) - 1))

NumSyn(buf) == Cardinality({j \in 1 .. Len(buf) : buf[j].type = EV_SYN})

\* synced after a handler that replaced the PadState of the slots in reset
SyncedAfterReset(reset) ==
  [i \in Slots |-> IF i \in reset THEN freshPadState ELSE synced[i]]

(***************************************************************************)
(* Actions: one per handler                                                *)
(***************************************************************************)
\* The observers as the handler finds them: nothing sent yet
Observers ==
  [clients |-> uiClients,
   socks |-> [u \in 1 .. Len(uiSocks) |-> [uiSocks[u] EXCEPT !.got = <<>>]]]

\* The handler has called broadcastUI for msgs, in order
Broadcast(msgs) ==
  /\ uiOut' = msgs
  /\ LET o == broadcastAll(Observers, msgs)
     IN /\ uiClients' = o.clients
        /\ uiSocks' = o.socks

\* A request answered with an error status before it changed anything
Rejected(status) ==
  /\ resp' = status
  /\ Broadcast(<<>>)
  /\ wsOut' = <<>>
  /\ calib' = EmptyRanges
  /\ UNCHANGED <<padVars, connVars, histVars, probeVars, kioskVars>>

\* The slot handlers leave w; nothing is sent to the console
PadsStep(w, reset) ==
  /\ pads' = w.pads
  /\ streams' = w.streams
  /\ Broadcast(w.ui)
  /\ wsOut' = <<>>
  /\ synced' = SyncedAfterReset(reset)

\* setInterval(..., 2000) controller scan (src/remote-pad.ts:572-601);
\* curr is what detectControllers returns
Scan(curr) ==
  /\ controllers' = curr
  /\ PadsStep(scan(World, controllers, curr),
              {i \in Slots : /\ {c.eventPath : c \in controllers} # {c.eventPath : c \in curr}
                             /\ pads[i].device # NoDevice
                             /\ pads[i].device.eventPath \notin {c.eventPath : c \in curr}})
  /\ resp' = 0
  /\ calib' = EmptyRanges
  /\ UNCHANGED <<msgCount, connVars, probeVars, kioskVars>>

\* POST /api/assign (src/remote-pad.ts:1076-1106); hw is what EVIOCGABS
\* answers for the device now
ApiAssign(padIndex, eventPath, hw) ==
  IF padIndex < 0 \/ padIndex > 3 THEN Rejected(400)
  ELSE IF ~\E c \in controllers : c.eventPath = eventPath THEN Rejected(404)
  ELSE /\ Len(streams) < MaxReaders
       /\ LET dev == CHOOSE c \in controllers : c.eventPath = eventPath
          IN PadsStep(assign(World, padIndex, dev, hw),
                      {i \in Slots : i = padIndex \/ pads[i].device.eventPath = eventPath})
       /\ resp' = 200
       /\ calib' = hw
       /\ UNCHANGED <<controllers, msgCount, connVars, probeVars, kioskVars>>

\* POST /api/assign (src/remote-pad.ts:1076-1106) with a body whose padIndex
\* is no number (absent, null, a non-numeric string): `padIndex < 0` and
\* `padIndex > 3` are both false, the device is looked up and vacated from the
\* slot holding it, and `state.pads[padIndex].device` (line 1093) throws a
\* TypeError on the undefined slot; the rejected promise is answered by the
\* server's default error response, status 500.
ApiAssignBadIndex(eventPath) ==
  IF ~\E c \in controllers : c.eventPath = eventPath THEN Rejected(404)
  ELSE /\ PadsStep(assignVacate(World, 0, eventPath),
                   {i \in Slots : pads[i].device.eventPath = eventPath})
       /\ resp' = 500
       /\ calib' = EmptyRanges
       /\ UNCHANGED <<controllers, msgCount, connVars, probeVars, kioskVars>>

\* POST /api/unassign (src/remote-pad.ts:1108-1117)
ApiUnassign(padIndex) ==
  IF padIndex < 0 \/ padIndex > 3 THEN Rejected(400)
  ELSE /\ PadsStep(unassign(World, padIndex), {padIndex})
       /\ resp' = 200
       /\ calib' = EmptyRanges
       /\ UNCHANGED <<controllers, msgCount, connVars, probeVars, kioskVars>>

\* POST /api/unassign (src/remote-pad.ts:1108-1117) with a body whose
\* padIndex is absent or null: neither test of line 1111 is true, and
\* stopEvdevReader throws a TypeError on the undefined slot before anything
\* has changed; the rejected promise is answered with status 500.
ApiUnassignBadIndex == Rejected(500)

\* A stream that has emitted 'close' delivers nothing more: what its
\* listeners captured is garbage
ClosedStream ==
  [pad |-> 0, status |-> "closed", path |-> "", layout |-> "standard", ranges |-> EmptyRanges]

\* 'close' of a destroyed stream is delivered (src/remote-pad.ts:352)
StreamClose(id) ==
  /\ id \in 1 .. Len(streams)
  /\ streams[id].status = "destroyed"
  /\ LET w == onStreamClose(World, streams[id].pad)
     IN PadsStep([w EXCEPT !.streams[id] = ClosedStream], {})
  /\ resp' = 0
  /\ calib' = EmptyRanges
  /\ UNCHANGED <<controllers, msgCount, connVars, probeVars, kioskVars>>

\* The outstanding read of a stream fails (the device went away). An open
\* stream destroys itself with the error; a stream that stopEvdevReader has
\* destroyed waits for its outstanding read before it closes the descriptor,
\* and hands the read's error on. Either way its 'error' and 'close' are
\* emitted in a later turn.
StreamReadError(id) ==
  /\ id \in 1 .. Len(streams)
  /\ streams[id].status \in {"open", "destroyed"}
  /\ PadsStep([World EXCEPT !.streams[id].status = "failed"], {})
  /\ resp' = 0
  /\ calib' = EmptyRanges
  /\ UNCHANGED <<controllers, msgCount, connVars, probeVars, kioskVars>>

\* 'error' and then 'close' of a stream whose read failed are delivered in
\* one turn (src/remote-pad.ts:351-352): the error listener stops the reader
\* the slot records now
StreamError(id) ==
  /\ id \in 1 .. Len(streams)
  /\ streams[id].status = "failed"
  /\ LET w1 == stopEvdevReader(World, streams[id].pad)
         w2 == onStreamClose(w1, streams[id].pad)
     IN PadsStep([w2 EXCEPT !.streams[id] = ClosedStream], {streams[id].pad})
  /\ resp' = 0
  /\ calib' = EmptyRanges
  /\ UNCHANGED <<controllers, msgCount, connVars, probeVars, kioskVars>>

\* 'data' of an open stream with the records of one read
\* (src/remote-pad.ts:277-349)
StreamData(id, buf) ==
  /\ id \in 1 .. Len(streams)
  /\ streams[id].status = "open"
  /\ msgCount + NumSyn(buf) <= MaxMsgCount
  /\ LET st == streams[id]
         r == onData(pads[st.pad].state, st.layout, st.ranges, st.pad, buf)
     IN /\ pads' = [pads EXCEPT ![st.pad].state = r.state]
        /\ wsOut' = r.sent
        /\ msgCount' = msgCount + r.count
        /\ synced' = [synced EXCEPT ![st.pad] =
                        IF NumSyn(buf) = 0 THEN @
                        ELSE ApplyAll(pads[st.pad].state, st.layout, st.ranges,
                                      UpToLastSyn(buf))]
  /\ Broadcast(<<>>)
  /\ resp' = 0
  /\ calib' = EmptyRanges
  /\ UNCHANGED <<controllers, streams, connVars, probeVars, kioskVars>>

\* setInterval(..., 100) pad state broadcast (src/remote-pad.ts:562-569)
Tick ==
  /\ Broadcast(<< [type |-> "padStates",
                    pads |-> [i \in Slots |->
                               [index |-> i, active |-> pads[i].active,
                                state |-> IF pads[i].active THEN <<pads[i].state>> ELSE <<>>]],
                    msgCount |-> msgCount] >>)
  /\ wsOut' = <<>>
  /\ resp' = 0
  /\ calib' = EmptyRanges
  /\ UNCHANGED <<padVars, connVars, histVars, probeVars, kioskVars>>

\* getFullState (src/remote-pad.ts:541-559)
getFullState ==
  [type |-> "fullState", connected |-> ps4Connected, controllers |-> controllers,
   pads |-> [i \in Slots |->
              [index |-> i, device |-> pads[i].device, active |-> pads[i].active,
               state |-> <<pads[i].state>>]],
   msgCount |-> msgCount]

\* websocket.open of the UI server (src/remote-pad.ts:1131-1137): the new
\* observer is sent the full state
WsOpen ==
  /\ Len(uiSocks) < MaxClients
  /\ uiOut' = << getFullState >>
  /\ LET o == wsOpen(Observers, getFullState)
     IN /\ uiClients' = o.clients
        /\ uiSocks' = o.socks
  /\ wsOut' = <<>>
  /\ resp' = 0
  /\ calib' = EmptyRanges
  /\ UNCHANGED <<padVars, connVars, histVars, probeVars, kioskVars>>

\* websocket.close of the UI server (src/remote-pad.ts:1142-1145) for the
\* socket of observer u
WsClose(u) ==
  /\ u \in 1 .. Len(uiSocks)
  /\ uiSocks[u].status # "closed"
  /\ uiOut' = <<>>
  /\ LET o == wsClosed(Observers, u)
     IN /\ uiClients' = o.clients
        /\ uiSocks' = o.socks
  /\ wsOut' = <<>>
  /\ resp' = 0
  /\ calib' = EmptyRanges
  /\ UNCHANGED <<padVars, connVars, histVars, probeVars, kioskVars>>

\* The socket of observer u gets into a state in which send throws; no
\* handler runs
WsFail(u) ==
  /\ u \in 1 .. Len(uiSocks)
  /\ uiSocks[u].status = "open"
  /\ uiSocks' = [uiSocks EXCEPT ![u].status = "failing"]
  /\ UNCHANGED <<padVars, connVars, outVars, uiClients, histVars, probeVars, kioskVars>>

\* The connection handlers leave k
NetStep(k) ==
  /\ conns' = k.conns
  /\ socks' = k.socks
  /\ ps4Connected' = k.connected
  /\ Broadcast(k.ui)
  /\ wsOut' = k.ws
  /\ calib' = EmptyRanges

\* POST /api/connect (src/remote-pad.ts:1051-1062)
ApiConnect(host) ==
  IF host = "" THEN Rejected(400)
  ELSE /\ Len(conns) < MaxConns
       /\ LET k0 == IF ps4Connection # 0 THEN close(Net, ps4Connection) ELSE Net
          IN NetStep(createPS4Connection(k0, host))
       /\ ps4Connection' = Len(conns) + 1
       /\ resp' = 200
       /\ UNCHANGED <<padVars, histVars, probeVars, kioskVars>>

\* POST /api/disconnect (src/remote-pad.ts:1064-1074)
ApiDisconnect ==
  /\ LET k0 == IF ps4Connection # 0 THEN close(Net, ps4Connection) ELSE Net
         k1 == [k0 EXCEPT !.connected = FALSE]
     IN NetStep(netBroadcast(k1, [type |-> "ps4Status", connected |-> FALSE, host |-> ""]))
  /\ ps4Connection' = 0
  /\ resp' = 200
  /\ UNCHANGED <<padVars, histVars, probeVars, kioskVars>>

\* 'open' of a connecting socket is delivered
SocketOpen(s) ==
  /\ s \in 1 .. Len(socks)
  /\ socks[s].status = "connecting"
  /\ NetStep(onOpen([Net EXCEPT !.socks[s].status = "open"], socks[s].conn))
  /\ resp' = 0
  /\ UNCHANGED <<padVars, ps4Connection, histVars, probeVars, kioskVars>>

\* 'close' of a socket is delivered: the connection attempt failed, the
\* open socket dropped, or the close() handshake ended
SocketClose(s) ==
  /\ s \in 1 .. Len(socks)
  /\ socks[s].status \in {"connecting", "open", "closing"}
  /\ NetStep(onClose([Net EXCEPT !.socks[s].status = "closed"], socks[s].conn))
  /\ resp' = 0
  /\ UNCHANGED <<padVars, ps4Connection, histVars, probeVars, kioskVars>>

\* 'message' of an open socket is delivered
SocketMessage(s, frame) ==
  /\ s \in 1 .. Len(socks)
  /\ socks[s].status = "open"
  /\ NetStep(onMessage(Net, socks[s].conn, frame))
  /\ resp' = 0
  /\ UNCHANGED <<padVars, ps4Connection, histVars, probeVars, kioskVars>>

\* The 2 s timeout of an info request of connection c fires
InfoTimeout(c, id) ==
  /\ c \in 1 .. Len(conns)
  /\ id \in conns[c].infoTimers
  /\ NetStep(onInfoTimeout(Net, c, id))
  /\ resp' = 0
  /\ UNCHANGED <<padVars, ps4Connection, histVars, probeVars, kioskVars>>

\* A reconnect timer of connection c fires
ReconnectTimer(c) ==
  /\ c \in 1 .. Len(conns)
  /\ conns[c].timers > 0
  /\ conns[c].intentionallyClosed \/ conns[c].attempts < MaxAttempts
  /\ NetStep(onReconnectTimer(Net, c))
  /\ resp' = 0
  /\ UNCHANGED <<padVars, ps4Connection, histVars, probeVars, kioskVars>>

\* The encoder as the handler finds it: nothing written yet
Hid == [proc |-> mouseProc, buf |-> eventBuf, out |-> <<>>]

\* The mouse and key handlers leave h; the pad bridge is another process
HidStep(h) ==
  /\ eventBuf' = h.buf
  /\ stdin' = h.out
  /\ UNCHANGED <<padVars, connVars, outVars, uiVars, histVars, probeVars, mouseProc, cdp,
                 auxVars>>

\* websocket.message of the kiosk dashboard (src/unnamed/part_001:1646-1676),
\* type 0x01: relative mouse move (int16 dx, int16 dy)
KioskMove(dx, dy) ==
  HidStep(IF dx # 0 \/ dy # 0 THEN mouseMove(Hid, dx, dy) ELSE Hid)

\* type 0x02: click (uint8 button, uint8 pressed)
KioskClick(button, pressed) == HidStep(mouseClick(Hid, button, pressed))

\* type 0x03: scroll (int16 delta)
KioskScroll(delta) == HidStep(mouseScroll(Hid, delta))

\* type 0x04: raw key (uint16 keycode, uint8 pressed)
KioskKey(kc, pressed) ==
  HidStep(IF kc > 0 THEN keyPress(Hid, kc, pressed) ELSE Hid)

\* The keyboard channel as the handler finds it: nothing sent yet
Cdp == [cdp EXCEPT !.sent = <<>>]

\* The keyboard handlers leave d
CdpStep(d) ==
  /\ cdp' = d
  /\ UNCHANGED <<padVars, connVars, outVars, uiVars, histVars, probeVars,
                 mouseProc, eventBuf, stdin, auxVars>>

\* websocket.message of the kiosk dashboard, type 0x06: special key (uint8
\* id), src/unnamed/part_001:1669-1674
KioskSpecialKey(id) ==
  /\ Len(cdp.keys) < MaxKeys
  /\ CdpStep(IF id \in 1 .. Len(SPECIAL_KEY_IDS)
             THEN cdpDispatchKey(Cdp, SPECIAL_KEY_IDS[id])
             ELSE Cdp)

\* websocket.message of the kiosk dashboard, type 0x05: text insert,
\* src/unnamed/part_001:1665-1668
KioskText(text) ==
  /\ Len(cdp.keys) < MaxKeys
  /\ CdpStep(IF text # <<>> THEN cdpInsertText(Cdp, text) ELSE Cdp)

\* getCdpTarget answers call p
CdpTarget(p, target) ==
  /\ p \in 1 .. Len(cdp.keys)
  /\ cdp.keys[p].pc = "target"
  /\ CdpStep(onCdpTarget(Cdp, p, target))

\* Socket s is open
CdpOpen(s) ==
  /\ s \in 1 .. Len(cdp.socks)
  /\ cdp.socks[s] = "connecting"
  /\ CdpStep(onCdpOpen(Cdp, s))

\* Socket s failed to connect, or was closed
CdpClose(s) ==
  /\ s \in 1 .. Len(cdp.socks)
  /\ cdp.socks[s] # "closed"
  /\ CdpStep(onCdpClose(Cdp, s))

\* The socket of call p has not opened within 3 s
CdpConnectTimeout(p) ==
  /\ p \in 1 .. Len(cdp.keys)
  /\ cdp.keys[p].pc = "connecting"
  /\ CdpStep(onCdpConnectTimeout(Cdp, p))

\* The browser answers the call that operation p awaits
CdpResponse(p, ok) ==
  /\ p \in 1 .. Len(cdp.keys)
  /\ cdp.keys[p].pc \in {"awaitDown", "awaitUp", "awaitText"}
  /\ cdp.socks[cdp.keys[p].ws] = "open"
  /\ CdpStep(onCdpResponse(Cdp, p, ok))

\* The browser did not answer the call that operation p awaits
CdpTimeout(p) ==
  /\ p \in 1 .. Len(cdp.keys)
  /\ cdp.keys[p].pc \in {"awaitDown", "awaitUp", "awaitText"}
  /\ CdpStep(onCdpTimeout(Cdp, p))

\* POST /api/navigate, GET /api/nav-state, POST /api/nav-back and
\* POST /api/nav-forward
KioskNav(route) ==
  /\ Len(cdp.navs) < MaxNavs
  /\ CdpStep(navStart(Cdp, route))

\* getCdpTarget answers request n
NavTarget(n, target) ==
  /\ n \in 1 .. Len(cdp.navs)
  /\ cdp.navs[n].pc = "target"
  /\ CdpStep(onNavTarget(Cdp, n, target))

\* The socket of request n is open
NavOpen(n) ==
  /\ n \in 1 .. Len(cdp.navs)
  /\ cdp.navs[n].pc = "connecting"
  /\ CdpStep(onNavOpen(Cdp, n))

\* Request n fails: its socket does not open, or its awaited call gets an
\* error response or none
NavFail(n) ==
  /\ n \in 1 .. Len(cdp.navs)
  /\ cdp.navs[n].pc \in {"connecting", "awaitFirst", "awaitSecond"}
  /\ CdpStep(onNavFail(Cdp, n))

\* The browser answers the call that request n awaits
NavResponse(n, more) ==
  /\ n \in 1 .. Len(cdp.navs)
  /\ cdp.navs[n].pc \in {"awaitFirst", "awaitSecond"}
  /\ CdpStep(onNavResponse(Cdp, n, more))

\* websocket.message of the kiosk dashboard on one message
\* (src/unnamed/part_001:1646-1676)
KioskMessage(msg) ==
  LET m == message([h |-> Hid, d |-> Cdp], msg)
  IN /\ Len(m.d.keys) <= MaxKeys
     /\ eventBuf' = m.h.buf
     /\ stdin' = m.h.out
     /\ cdp' = m.d
     /\ UNCHANGED <<padVars, connVars, outVars, uiVars, histVars, probeVars, mouseProc,
                    auxVars>>

\* A handler of the page or of the bluetooth manager leaves k, b and t;
\* they run in other processes than the pad bridge and the dashboard
AuxStep(k, b, t) ==
  /\ kbd' = k
  /\ bt' = b
  /\ wifi' = t
  /\ UNCHANGED <<padVars, connVars, outVars, uiVars, histVars, probeVars,
                 mouseProc, eventBuf, stdin, cdp>>

\* The box as the handler finds it: nothing sent yet
Kbd == [kbd EXCEPT !.out = <<>>]

\* 'input' of the keyboard box with value cur
KbdInput(cur) == AuxStep(onInput(Kbd, cur), bt, wifi)

\* 'keydown' of the keyboard box with e.key = key
KbdKeydown(key) == AuxStep(onKeydown(Kbd, key), bt, wifi)

\* The Go button (src/unnamed/part_001:1116)
KbdGo == AuxStep(kbdSendEnter(Kbd), bt, wifi)

\* The page's socket opens or closes
KbdSocket(open) == AuxStep([Kbd EXCEPT !.open = open], bt, wifi)

\* POST /api/pair for a device (src/bluetooth-manager.ts:1383)
BtPair(dev) ==
  /\ Len(bt.calls) < MaxCalls
  /\ AuxStep(kbd, pairDevice(bt, dev), wifi)

\* The registration under way ends
BtRegistered(ok) ==
  /\ bt.registering
  /\ AuxStep(kbd, onRegistered(bt, ok), wifi)

\* BlueZ releases the registered agent
BtRelease ==
  /\ bt.registered
  /\ AuxStep(kbd, release(bt), wifi)

\* POST /api/discovery: setDiscovery (src/bluetooth-manager.ts:213-236)
\* makes sure of the agent before it turns discovery on or off
BtDiscovery == AuxStep(kbd, registerAgent(bt), wifi)

\* Call p, past registerAgent, has set Pairable
BtPairable(p) ==
  /\ p \in 1 .. Len(bt.calls)
  /\ bt.calls[p].pc = "start"
  /\ ~bt.calls[p].waits
  /\ AuxStep(kbd, onPairable(bt, p), wifi)

\* Call p leaves its try block: by an exception at any point past
\* registerAgent, by a return once Pairable is set
BtExit(p, result) ==
  /\ p \in 1 .. Len(bt.calls)
  /\ bt.calls[p].pc \in {"start", "pairing"}
  /\ ~bt.calls[p].waits
  /\ bt.calls[p].pc = "start" => result = "error"
  /\ AuxStep(kbd, pairExit(bt, p, result), wifi)

\* Call p returns
BtReturn(p, ok) ==
  /\ p \in 1 .. Len(bt.calls)
  /\ bt.calls[p].pc = "finally"
  /\ AuxStep(kbd, pairReturn(bt, p, ok), wifi)

\* BlueZ asks the agent on behalf of a device
BtAgent(dev, method) == AuxStep(kbd, agentRequest(bt, dev, method), wifi)

\* POST /api/wifi/test (src/bluetooth-manager.ts:2729)
WifiStart(usable) == AuxStep(kbd, bt, startConnectionTest(wifi, usable))

(***************************************************************************)
(* The state after start-up: no slot assigned, no connection, and          *)
(* state.controllers holding main()'s initial scan                         *)
(* (src/remote-pad.ts:106-122, 1036)                                       *)
(***************************************************************************)
NoProbe == [value |-> 0, range |-> [min |-> 0, max |-> 0], out |-> 0, done |-> FALSE]
NoEvent == [caps |-> 0, layout |-> "", ranges |-> EmptyRanges, prev |-> freshPadState,
            rec |-> [type |-> EV_SYN, code |-> 0, value |-> 0],
            cur |-> freshPadState, done |-> FALSE]

InitPads(devs) ==
  /\ controllers \in SUBSET devs
  /\ pads = [i \in Slots |-> EmptySlot]
  /\ streams = <<>>
  /\ msgCount = 0
  /\ conns = <<>>
  /\ socks = <<>>
  /\ ps4Connection = 0
  /\ ps4Connected = FALSE
  /\ uiOut = <<>>
  /\ wsOut = <<>>
  /\ resp = 0
  /\ calib = EmptyRanges
  /\ uiClients = <<>>
  /\ uiSocks = <<>>
  /\ synced = [i \in Slots |-> freshPadState]

\* The kiosk dashboard after start-up (src/unnamed/part_001:24-27, 98,
\* 378, 399-400); spawned tells whether createVirtualMouse found the helper
InitKiosk(spawned) ==
  /\ mouseProc \in spawned
  /\ eventBuf = [j \in 1 .. EVENT_SIZE * 3 |-> 0]
  /\ stdin = <<>>
  /\ cdp = [ws |-> 0, ready |-> FALSE, cdpId |-> 1, sent |-> <<>>, socks |-> <<>>,
            keys |-> <<>>, navs |-> <<>>]
  /\ kbd = [prev |-> <<>>, clearing |-> FALSE, open |-> FALSE, out |-> <<>>]
  /\ bt = [inProgress |-> {}, pairable |-> FALSE, calls |-> <<>>, agent |-> NoRequest,
           registered |-> FALSE, registering |-> TRUE]
  /\ wifi = [inProgress |-> FALSE, resp |-> ""]

NoTrip == [type |-> 0, code |-> 0, value |-> 0,
           out |-> [type |-> 0, code |-> 0, value |-> 0], done |-> FALSE]

InitWith(devs) == InitPads(devs) /\ InitKiosk({TRUE}) /\ rt = NoTrip

(***************************************************************************)
(* Inputs                                                                  *)
(***************************************************************************)
\* A DualShock 4 (standard layout) and a GameSir BLE pad ("B: ABS=30627",
\* gas/brake layout)
DevA == [eventPath |-> "/dev/input/event0", vendor |-> "054c", absCaps |-> 196671]
DevB == [eventPath |-> "/dev/input/event1", vendor |-> "3537", absCaps |-> 198183]

Key(code, value) == [type |-> EV_KEY, code |-> code, value |-> value]
Abs(code, value) == [type |-> EV_ABS, code |-> code, value |-> value]
Syn == [type |-> EV_SYN, code |-> 0, value |-> 0]

\* What EVIOCGABS may report: nothing (the fallback ranges are used), or
\* 16-bit unsigned sticks with 10-bit triggers
HwNone == EmptyRanges
HwWide ==
  [a \in {ABS_X, ABS_Y, ABS_Z, ABS_RZ, ABS_GAS, ABS_BRAKE} |->
     IF a \in {ABS_GAS, ABS_BRAKE} THEN [min |-> 0, max |-> 1023]
     ELSE [min |-> 0, max |-> 65535]]

(***************************************************************************)
(* Spec: the pad slot multiplexer.  Two devices come and go, are assigned  *)
(* to and unassigned from slots 0 and 2 (slots 1 and 3 stay empty), and    *)
(* their readers deliver a key record, fail and close.  Every request is   *)
(* one the handler accepts.                                                *)
(***************************************************************************)
SlotDevices == {DevA, DevB}
SlotAssigns ==
  { <<DevA.eventPath, HwNone>>, <<DevA.eventPath, HwWide>>, <<DevB.eventPath, HwNone>> }
SlotBufs == { <<Key(BTN_SOUTH, 1)>> }

Init == InitWith(SlotDevices) /\ nm = NoProbe /\ ev = NoEvent

Next ==
  \/ \E curr \in SUBSET SlotDevices : Scan(curr)
  \/ \E padIndex \in {0, 2}, a \in SlotAssigns :
       /\ \E c \in controllers : c.eventPath = a[1]
       /\ Len(streams) < MaxSlotStreams
       /\ ApiAssign(padIndex, a[1], a[2])
  \/ \E padIndex \in {0, 2} : ApiUnassign(padIndex)
  \/ \E id \in 1 .. Len(streams) : StreamClose(id)
  \/ \E id \in 1 .. Len(streams) : StreamReadError(id)
  \/ \E id \in 1 .. Len(streams) : StreamError(id)
  \/ \E id \in 1 .. Len(streams), buf \in SlotBufs : StreamData(id, buf)

Spec == Init /\ [][Next]_vars

(***************************************************************************)
(* C1: at no time do two pad slots hold devices with the same event path,  *)
(* whatever assigns, unassigns, scans and stream errors/closes happened.   *)
(***************************************************************************)
C1_ExclusiveSlots ==
  \A i, j \in Slots :
    (i # j /\ pads[i].device # NoDevice)
      => pads[i].device.eventPath # pads[j].device.eventPath

\* A device was moved: its previous slot was vacated by the assign that
\* bound it to another slot, while the other device holds no slot or one
C1_Witness ==
  /\ resp = 200
  /\ Len(uiOut) = 2
  /\ uiOut[1].device = NoDevice
  /\ uiOut[2].device # NoDevice
  /\ uiOut[1].pad # uiOut[2].pad
  /\ pads[uiOut[2].pad].device = uiOut[2].device


\* Slot i holds a device, is marked active and its recorded reader is open
Held(i) ==
  /\ pads[i].device # NoDevice
  /\ pads[i].active
  /\ pads[i].stream # 0
  /\ streams[pads[i].stream].status = "open"

(***************************************************************************)
(* C2: after a successful assign the target slot holds the device, is      *)
(* active and has an open reader, and a slot in that condition stays in it *)
(* over every step that neither changes its device (unassign, a vacating   *)
(* assign, hot-unplug) nor ends its own reader -- in particular over the   *)
(* delivery of 'close' of the reader this assign stopped.                  *)
(***************************************************************************)
C2_AssignedStaysActive ==
  [][\A i \in Slots :
       /\ (/\ resp' = 200
           /\ uiOut' # <<>>
           /\ uiOut'[Len(uiOut')] = padAssignment(i, pads'[i].device)
           /\ pads'[i].device # NoDevice) => Held(i)'
       /\ (/\ Held(i)
           /\ pads'[i].device = pads[i].device
           /\ streams'[pads[i].stream].status = "open") => Held(i)'
    ]_vars

(***************************************************************************)
(* C3: an assign that binds to slot j a device held by another slot i      *)
(* leaves slot i empty, inactive, without reader and at rest, broadcasts   *)
(* padAssignment{pad: i, device: null}, and leaves slot j active with an   *)
(* open reader and with the range map this assign's own calibration gave   *)
(* (the EVIOCGABS answers of this request, or the vendor's fallback).      *)
(***************************************************************************)
C3_MoveVacatesPrevious ==
  [][\A i, j \in Slots :
       (i # j /\ pads[i].device # NoDevice /\ pads'[j].device = pads[i].device)
         => /\ pads'[i].device = NoDevice
            /\ ~pads'[i].active
            /\ pads'[i].stream = 0
            /\ pads'[i].state = freshPadState
            /\ \E m \in 1 .. Len(uiOut') : uiOut'[m] = padAssignment(i, NoDevice)
            /\ Held(j)'
            /\ pads'[j].state = freshPadState
            /\ pads'[j].axisRanges =
                 (IF DOMAIN calib' = {} THEN getFallbackRanges(pads[i].device.vendor)
                  ELSE calib')
            /\ streams'[pads'[j].stream].ranges = pads'[j].axisRanges
    ]_vars

\* DevA, calibrated and pressed in slot 0, has just been moved to slot 2
\* with a calibration that fell back to the vendor ranges
C3_Witness ==
  /\ resp = 200
  /\ uiOut = << padAssignment(0, NoDevice), padAssignment(2, DevA) >>
  /\ pads[0].axisRanges = HwWide
  /\ pads[2].axisRanges = getFallbackRanges("054c")
  /\ pads[2].device = DevA
  /\ pads[2].active


(***************************************************************************)
(* SpecConn: the console RPC client.  Connections are made to a host that  *)
(* resolves and to one whose url cannot be parsed, are replaced and        *)
(* disconnected; sockets open, fail and drop; reconnect timers fire.  A    *)
(* timer that was set and not cleared eventually fires.                    *)
(***************************************************************************)
ConnHosts == {"ps4.local", BadHost}

InitConn == InitWith({}) /\ nm = NoProbe /\ ev = NoEvent

NextConn ==
  \/ \E host \in ConnHosts : ApiConnect(host)
  \/ ApiDisconnect
  \/ \E s \in 1 .. Len(socks) : SocketOpen(s)
  \/ \E s \in 1 .. Len(socks) : SocketClose(s)
  \/ \E c \in 1 .. Len(conns) : ReconnectTimer(c)

SpecConn ==
  /\ InitConn
  /\ [][NextConn]_vars
  /\ \A c \in 1 .. MaxConns : WF_vars(ReconnectTimer(c))

\* Connection c was closed explicitly: /api/disconnect dropped it or
\* /api/connect replaced it
Disconnected(c) == c \in 1 .. Len(conns) /\ c # ps4Connection

(***************************************************************************)
(* C4: once a connection was explicitly disconnected it makes no further   *)
(* connection attempt and has no reconnect timer left, in every later      *)
(* step: the timer pending at the disconnect was cleared, and the close    *)
(* event of its socket delivered afterwards schedules nothing.             *)
(***************************************************************************)
C4_NoReconnectAfterDisconnect ==
  [][\A c \in 1 .. Len(conns) :
       Disconnected(c) => /\ conns'[c].attempts = conns[c].attempts
                          /\ conns'[c].timers = 0
                          /\ \A s \in 1 .. Len(socks') : socks'[s].conn = c => s <= Len(socks)
    ]_vars

\* Connection 1 was replaced while its socket was open and that socket's
\* close event has just been delivered; connection 2 was disconnected while
\* its reconnect timer was pending
C4_Witness ==
  /\ Len(conns) = 2
  /\ ps4Connection = 0
  /\ conns[1].intentionallyClosed /\ conns[1].rpcId = 1
  /\ socks[conns[1].ws].status = "closed"
  /\ uiOut = << [type |-> "ps4Status", connected |-> FALSE, host |-> ""] >>
  /\ resp = 0
  /\ conns[2].intentionallyClosed /\ conns[2].reconnectTimer /\ conns[2].timers = 0

\* The number of connect() calls connection c has made
Attempts(c) == IF c \in 1 .. Len(conns) THEN conns[c].attempts ELSE 0

\* The last connect() of connection c has failed or its socket has closed
Failed(c) ==
  /\ c \in 1 .. Len(conns)
  /\ ~conns[c].open
  /\ \/ WebSocketThrows(conns[c].host)
     \/ conns[c].ws # 0 /\ socks[conns[c].ws].status = "closed"

\* Connection c is not explicitly disconnected and its last connect() has
\* failed or lost its socket: only its next connect() (or a disconnect)
\* ends this condition, since a closed socket stays closed and the host is
\* fixed
AwaitsReconnect(c) ==
  Failed(c) /\ ~Disconnected(c) /\ Attempts(c) < MaxAttempts

(***************************************************************************)
(* C5: as long as a connection is not explicitly disconnected, each of its *)
(* failed attempts and each unexpected close of its socket is followed by  *)
(* another connect() of that connection; so attempts go on until one       *)
(* opens.  Attempts are counted up to MaxAttempts.                         *)
(***************************************************************************)
C5_ReconnectsUntilOpen ==
  \A c \in 1 .. MaxConns : AwaitsReconnect(c) ~> ~AwaitsReconnect(c)

\* A connection that opened, dropped, failed to reconnect (or the reverse)
\* and is open again after its third attempt
C5_Witness ==
  \E c \in 1 .. Len(conns) :
    /\ c = ps4Connection
    /\ conns[c].attempts >= 3
    /\ conns[c].rpcId >= 2
    /\ conns[c].open

\* Socket s of an open connection that was not explicitly closed
Connected(s) ==
  /\ s \in 1 .. Len(socks)
  /\ socks[s].status = "open"
  /\ conns[socks[s].conn].open
  /\ conns[socks[s].conn].ws = s
  /\ ~conns[socks[s].conn].intentionallyClosed

(***************************************************************************)
(* C6: the step in which the open socket of a connected client closes      *)
(* without close() having been called leaves state.ps4Connected false,     *)
(* broadcasts exactly one message, ps4Status{connected:false}, and leaves  *)
(* exactly one reconnect timer pending for that connection.                *)
(***************************************************************************)
C6_UnexpectedClose ==
  [][\A s \in 1 .. Len(socks) :
       (Connected(s) /\ socks'[s].status = "closed" /\ Len(conns') = Len(conns))
         => /\ ~ps4Connected'
            /\ ~conns'[socks[s].conn].open
            /\ uiOut' = << [type |-> "ps4Status", connected |-> FALSE, host |-> ""] >>
            /\ conns'[socks[s].conn].reconnectTimer
            /\ conns[socks[s].conn].timers = 0
            /\ conns'[socks[s].conn].timers = 1
            /\ conns'[socks[s].conn].attempts = conns[socks[s].conn].attempts
    ]_vars

\* The connected client's socket has just dropped: one reconnect is pending
C6_Witness ==
  /\ ps4Connection # 0
  /\ conns[ps4Connection].rpcId = 1
  /\ ~conns[ps4Connection].open
  /\ ~conns[ps4Connection].intentionallyClosed
  /\ socks[conns[ps4Connection].ws].status = "closed"
  /\ conns[ps4Connection].timers = 1
  /\ ~ps4Connected
  /\ uiOut = << [type |-> "ps4Status", connected |-> FALSE, host |-> ""] >>
  /\ resp = 0


(***************************************************************************)
(* SpecReader: one device on slot 1 with the console client.  The device   *)
(* is assigned, assigned again and unassigned; its readers deliver chunks  *)
(* that end at a synchronization record and chunks that end inside a       *)
(* frame; the 100 ms tick fires and observers connect between the chunks.  *)
(***************************************************************************)
ReaderBufs ==
  { <<Key(BTN_SOUTH, 1)>>,
    <<Syn>>,
    <<Key(BTN_SOUTH, 1), Abs(ABS_X, 255), Syn>>,
    <<Abs(ABS_X, 0), Syn, Key(BTN_EAST, 1)>> }

InitReader == InitWith({DevA}) /\ nm = NoProbe /\ ev = NoEvent

NextReader ==
  \/ ApiConnect("ps4.local")
  \/ \E s \in 1 .. Len(socks) : SocketOpen(s)
  \/ /\ \E c \in controllers : c.eventPath = DevA.eventPath
     /\ Len(streams) < MaxStreams
     /\ ApiAssign(1, DevA.eventPath, HwNone)
  \/ ApiUnassign(1)
  \/ \E id \in 1 .. Len(streams) : StreamClose(id)
  \/ \E id \in 1 .. Len(streams), buf \in ReaderBufs : StreamData(id, buf)
  \/ Tick
  \/ Len(uiSocks) < MaxObservers /\ WsOpen

SpecReader == InitReader /\ [][NextReader]_vars

\* The console connection is open: send() writes
ConsoleOpen ==
  /\ ps4Connection # 0
  /\ conns[ps4Connection].open
  /\ conns[ps4Connection].ws # 0

\* buf is key/axis records followed by one synchronization record
IsFrame(buf) ==
  /\ buf # <<>>
  /\ buf[Len(buf)].type = EV_SYN
  /\ NumSyn(buf) = 1

\* The pad update of slot i in state st
PadUpdate(i, st) ==
  [sock |-> conns[ps4Connection].ws, method |-> "u",
   params |-> <<i, st.buttons, st.lx, st.ly, st.rx, st.ry, st.l2, st.r2, 0>>]

(***************************************************************************)
(* C7: when a reader's data handler runs over key/axis records followed by *)
(* one synchronization record while the console connection is open, it     *)
(* writes exactly one frame: the pad update tagged with the slot that      *)
(* holds the reader's device, carrying that slot's state after all the     *)
(* records.                                                                *)
(***************************************************************************)
C7_OnePushPerFrame ==
  [][\A id \in 1 .. Len(streams) : \A buf \in ReaderBufs :
       (IsFrame(buf) /\ ConsoleOpen /\ StreamData(id, buf))
         => \E i \in Slots :
              /\ pads[i].device.eventPath = streams[id].path
              /\ wsOut' = << PadUpdate(i, ApplyAll(pads[i].state, streams[id].layout,
                                                   streams[id].ranges, buf)) >>
    ]_vars

\* The states carried by the padStates and fullState messages in ui
CarriedStates(ui) ==
  { <<i, ui[j].pads[i].state[1]>> :
      <<i, j>> \in { <<i, j>> \in Slots \X (1 .. Len(ui)) :
                       /\ ui[j].type \in {"padStates", "fullState"}
                       /\ ui[j].pads[i].state # <<>> } }

(***************************************************************************)
(* C8: every PadState carried by a padStates tick or a fullState snapshot, *)
(* and by the last pad update a handler pushed, is the slot's state as of  *)
(* its last reset or processed synchronization record: it holds no         *)
(* mutation of a frame whose synchronization record is still to come.      *)
(***************************************************************************)
C8_NoTornState ==
  /\ \A c \in CarriedStates(uiOut) : c[2] = synced[c[1]]
  /\ wsOut # <<>> /\ wsOut[Len(wsOut)].method = "u"
       => LET i == wsOut[Len(wsOut)].params[1]
          IN wsOut[Len(wsOut)] = PadUpdate(i, synced[i])


(***************************************************************************)
(* SpecAxis: normalize applied to raw values around the ends and the       *)
(* middle of the ranges the program meets: the fallback ranges, 16-bit     *)
(* unsigned sticks, a signed byte, two- and three-valued axes and a        *)
(* degenerate range.                                                       *)
(***************************************************************************)
ProbeRanges ==
  { [min |-> 0, max |-> 255], [min |-> -32768, max |-> 32767],
    [min |-> 0, max |-> 65535], [min |-> 0, max |-> 1023],
    [min |-> -128, max |-> 127], [min |-> -1, max |-> 1],
    [min |-> 0, max |-> 1], [min |-> 3, max |-> 3] }

ProbeValues ==
  { -32769, -32768, -32767, -129, -128, -127, -2, -1, 0, 1, 2, 3, 126, 127, 128,
    254, 255, 256, 511, 512, 1022, 1023, 1024, 32767, 32768, 65534, 65535, 65536 }

InitAxis ==
  /\ InitWith({})
  /\ ev = NoEvent
  /\ nm \in [value : ProbeValues, range : ProbeRanges, out : {0}, done : {FALSE}]

Normalize ==
  /\ ~nm.done
  /\ nm' = [nm EXCEPT !.out = normalize(nm.value, nm.range), !.done = TRUE]
  /\ UNCHANGED <<padVars, connVars, outVars, uiVars, histVars, ev, rt, kioskVars>>

NextAxis == Normalize

SpecAxis == InitAxis /\ [][NextAxis]_vars

(***************************************************************************)
(* C9: for a range with min < max and a raw value within it, normalize     *)
(* returns an integer in 0 .. 255, 0 for min and 255 for max.              *)
(***************************************************************************)
C9_NormalizeBounds ==
  (nm.done /\ nm.range.min < nm.range.max
           /\ nm.range.min <= nm.value /\ nm.value <= nm.range.max)
    => /\ nm.out \in 0 .. 255
       /\ nm.value = nm.range.min => nm.out = 0
       /\ nm.value = nm.range.max => nm.out = 255

\* The top of a signed range was normalized to 255
C9_Witness ==
  /\ nm.done
  /\ nm.range.min < 0
  /\ nm.value = nm.range.max
  /\ nm.out = 255

(***************************************************************************)
(* SpecEvent: one record handled by a reader's data handler, for the two   *)
(* layouts, the calibrated and the fallback range maps, and slot states    *)
(* at rest and with the left trigger held.                                 *)
(***************************************************************************)
EventCaps == {DevA.absCaps, DevB.absCaps}

EventRanges == {HwWide, getFallbackRanges("054c"), getFallbackRanges("3537")}

EventStates ==
  { freshPadState,
    [freshPadState EXCEPT !.l2 = 200, !.buttons = ORBIS_L2],
    [freshPadState EXCEPT !.rx = 7, !.l2 = 4, !.buttons = ORBIS_CROSS],
    [freshPadState EXCEPT !.ry = 9, !.r2 = 200, !.buttons = ORBIS_R2],
    [freshPadState EXCEPT !.lx = 3, !.buttons = ORBIS_LEFT + ORBIS_DOWN + ORBIS_CROSS],
    [freshPadState EXCEPT !.buttons = ORBIS_RIGHT + ORBIS_UP] }

EventRecords ==
  { Abs(ABS_Z, 32767), Abs(ABS_Z, 32768), Abs(ABS_Z, 0), Abs(ABS_Z, 65535),
    Abs(ABS_RZ, 32767), Abs(ABS_BRAKE, 512), Abs(ABS_GAS, 5), Abs(ABS_RX, 100),
    Abs(ABS_HAT0X, -1), Key(BTN_SOUTH, 1),
    Abs(ABS_RZ, 10), Abs(ABS_RZ, 11), Abs(ABS_Z, 10), Abs(ABS_Z, 11),
    Abs(ABS_BRAKE, 0), Abs(ABS_GAS, 1023),
    Abs(ABS_HAT0X, 0), Abs(ABS_HAT0X, 1), Abs(ABS_HAT0Y, -1), Abs(ABS_HAT0Y, 0),
    Abs(ABS_HAT0Y, 1), Abs(ABS_HAT0Y, 5) }

InitEvent ==
  /\ InitWith({})
  /\ nm = NoProbe
  /\ ev \in [caps : EventCaps, layout : {""}, ranges : EventRanges, prev : EventStates,
             rec : EventRecords, cur : {freshPadState}, done : {FALSE}]

HandleRecord ==
  /\ ~ev.done
  /\ ev' = [ev EXCEPT !.layout = detectAxisLayout(ev.caps),
                      !.cur = ApplyRecord(ev.prev, detectAxisLayout(ev.caps),
                                          ev.ranges, ev.rec),
                      !.done = TRUE]
  /\ UNCHANGED <<padVars, connVars, outVars, uiVars, histVars, nm, rt, kioskVars>>

NextEvent == HandleRecord

SpecEvent == InitEvent /\ [][NextEvent]_vars

\* The case of C10: a device with ABS_GAS and without ABS_RX, calibrated
\* ABS_Z range {0, 65535}, has had the record ABS_Z = 32767 handled
GasBrakeMidZ ==
  /\ ev.done
  /\ HasBit(ev.caps, CapBit(ABS_GAS))
  /\ ~HasBit(ev.caps, CapBit(ABS_RX))
  /\ ev.rec = Abs(ABS_Z, 32767)
  /\ ABS_Z \in DOMAIN ev.ranges
  /\ ev.ranges[ABS_Z] = [min |-> 0, max |-> 65535]

\* The left-trigger channel and the L2 bit are as before the record
LeftTriggerUntouched ==
  /\ ev.cur.l2 = ev.prev.l2
  /\ HasBit(ev.cur.buttons, ORBIS_L2) = HasBit(ev.prev.buttons, ORBIS_L2)

(***************************************************************************)
(* C10 as stated: for a gas/brake device, ABS_Z = 32767 with calibrated    *)
(* range {0, 65535} sets the right-stick-X channel to 128 and leaves the   *)
(* left trigger and the L2 bit unchanged.                                  *)
(***************************************************************************)
C10_MidZSets128 ==
  GasBrakeMidZ => (ev.cur.rx = 128 /\ LeftTriggerUntouched)

(***************************************************************************)
(* C10 amended: the record sets the right-stick-X channel to 127, which is *)
(* round(32767 / 65535 * 255) = round(127.498), and leaves the left        *)
(* trigger and the L2 bit unchanged.                                       *)
(***************************************************************************)
C10_MidZSets127 ==
  GasBrakeMidZ => (ev.cur.rx = 127 /\ LeftTriggerUntouched)

\* The record was handled for a slot whose left trigger was held
C10_Witness ==
  /\ GasBrakeMidZ
  /\ ev.prev.l2 = 200
  /\ HasBit(ev.prev.buttons, ORBIS_L2)
  /\ ev.cur.rx = 127


\* The probed record is an EV_ABS record of axis code with a known range,
\* handled for a device of the given layout
Handled(layout, code) ==
  /\ ev.done
  /\ detectAxisLayout(ev.caps) = layout
  /\ ev.rec.type = EV_ABS
  /\ ev.rec.code = code
  /\ code \in DOMAIN ev.ranges

\* Every channel and button bit other than the named ones is as before
ChannelsKept(chans) ==
  \A ch \in {"lx", "ly", "rx", "ry", "l2", "r2"} \ chans : ev.cur[ch] = ev.prev[ch]

BitsKept(bits) ==
  \A b \in {ORBIS_L2, ORBIS_R2, ORBIS_CROSS} \ bits :
    HasBit(ev.cur.buttons, b) = HasBit(ev.prev.buttons, b)

(***************************************************************************)
(* C11: for a standard-layout device an ABS_RZ record sets the right       *)
(* trigger to the normalized value, keeps the right stick (and every other *)
(* channel), and leaves the R2 bit set exactly when the new right-trigger  *)
(* value exceeds 10; ABS_Z does the same for the left trigger and L2.      *)
(***************************************************************************)
C11_StandardTriggers ==
  /\ Handled("standard", ABS_RZ)
       => /\ ev.cur.r2 = normalize(ev.rec.value, ev.ranges[ABS_RZ])
          /\ ChannelsKept({"r2"})
          /\ HasBit(ev.cur.buttons, ORBIS_R2) <=> (ev.cur.r2 > 10)
          /\ BitsKept({ORBIS_R2})
  /\ Handled("standard", ABS_Z)
       => /\ ev.cur.l2 = normalize(ev.rec.value, ev.ranges[ABS_Z])
          /\ ChannelsKept({"l2"})
          /\ HasBit(ev.cur.buttons, ORBIS_L2) <=> (ev.cur.l2 > 10)
          /\ BitsKept({ORBIS_L2})

\* A held right trigger was released to exactly the threshold: R2 cleared
C11_Witness ==
  /\ Handled("standard", ABS_RZ)
  /\ HasBit(ev.prev.buttons, ORBIS_R2)
  /\ ev.cur.r2 = 10
  /\ ~HasBit(ev.cur.buttons, ORBIS_R2)
  /\ ev.cur.ry = 9


\* The probed record is an EV_ABS record of axis code with a known range,
\* handled for a device that has ABS_GAS and lacks ABS_RX
GasBrakeHandled(code) ==
  /\ ev.done
  /\ HasBit(ev.caps, CapBit(ABS_GAS))
  /\ ~HasBit(ev.caps, CapBit(ABS_RX))
  /\ ev.rec.type = EV_ABS
  /\ ev.rec.code = code
  /\ code \in DOMAIN ev.ranges

\* ABS_RZ of a gas/brake device goes to the right stick's Y channel only
GasBrakeRZ ==
  GasBrakeHandled(ABS_RZ)
    => /\ ev.cur.ry = normalize(ev.rec.value, ev.ranges[ABS_RZ])
       /\ ChannelsKept({"ry"})
       /\ BitsKept({})

(***************************************************************************)
(* C12 as stated: for a gas/brake device ABS_RZ sets the right-stick Y     *)
(* channel and leaves both triggers and the L2/R2 bits unchanged, and      *)
(* ABS_BRAKE sets the right-trigger channel.                               *)
(***************************************************************************)
C12_BrakeSetsRightTrigger ==
  /\ GasBrakeRZ
  /\ GasBrakeHandled(ABS_BRAKE)
       => ev.cur.r2 = normalize(ev.rec.value, ev.ranges[ABS_BRAKE])

(***************************************************************************)
(* C12 amended: ABS_RZ as stated; ABS_BRAKE sets the left-trigger channel  *)
(* and the L2 bit by the threshold, and it is ABS_GAS that sets the        *)
(* right-trigger channel and the R2 bit.                                   *)
(***************************************************************************)
C12_BrakeSetsLeftTrigger ==
  /\ GasBrakeRZ
  /\ GasBrakeHandled(ABS_BRAKE)
       => /\ ev.cur.l2 = normalize(ev.rec.value, ev.ranges[ABS_BRAKE])
          /\ ChannelsKept({"l2"})
          /\ HasBit(ev.cur.buttons, ORBIS_L2) <=> (ev.cur.l2 > 10)
          /\ BitsKept({ORBIS_L2})
  /\ GasBrakeHandled(ABS_GAS)
       => /\ ev.cur.r2 = normalize(ev.rec.value, ev.ranges[ABS_GAS])
          /\ ChannelsKept({"r2"})
          /\ HasBit(ev.cur.buttons, ORBIS_R2) <=> (ev.cur.r2 > 10)
          /\ BitsKept({ORBIS_R2})

\* A brake record was handled for a gas/brake device whose right trigger was
\* held: the left trigger moved, the right trigger stayed
C12_Witness ==
  /\ GasBrakeHandled(ABS_BRAKE)
  /\ ev.prev.r2 = 200
  /\ ev.cur.r2 = 200
  /\ ev.cur.l2 = 128
  /\ HasBit(ev.cur.buttons, ORBIS_L2)


(***************************************************************************)
(* SpecLayout: detectAxisLayout applied to every capability bitmask over   *)
(* the axes 0 .. 9 (ABS_GAS is bit 9, ABS_RX bit 3) and to the bitmasks of *)
(* the two devices.                                                        *)
(***************************************************************************)
LayoutCaps == (0 .. 1023) \cup {DevA.absCaps, DevB.absCaps}

InitLayout ==
  /\ InitWith({})
  /\ nm = NoProbe
  /\ ev \in [caps : LayoutCaps, layout : {""}, ranges : {EmptyRanges},
             prev : {freshPadState}, rec : {Syn}, cur : {freshPadState},
             done : {FALSE}]

DetectLayout ==
  /\ ~ev.done
  /\ ev' = [ev EXCEPT !.layout = detectAxisLayout(ev.caps), !.done = TRUE]
  /\ UNCHANGED <<padVars, connVars, outVars, uiVars, histVars, nm, rt, kioskVars>>

NextLayout == DetectLayout

SpecLayout == InitLayout /\ [][NextLayout]_vars

(***************************************************************************)
(* C13: the layout detected is gas_brake exactly when bit 9 (ABS_GAS) of   *)
(* the capability bitmask is set and bit 3 (ABS_RX) is clear, and standard *)
(* for every other bitmask, 0 included.                                    *)
(***************************************************************************)
C13_LayoutDetection ==
  ev.done =>
    /\ ev.layout \in {"gas_brake", "standard"}
    /\ ev.layout = "gas_brake"
         <=> ((ev.caps \div 512) % 2 = 1 /\ (ev.caps \div 8) % 2 = 0)
    /\ ev.caps = 0 => ev.layout = "standard"

\* A bitmask with both ABS_GAS and ABS_RX was classified standard
C13_Witness ==
  /\ ev.done
  /\ ev.caps = 512 + 8 + 3
  /\ ev.layout = "standard"


\* Slot i is empty: no device, no stream handle, inactive, PadState at rest
Vacant(ps, i) ==
  /\ ps[i].device = NoDevice
  /\ ps[i].stream = 0
  /\ ~ps[i].active
  /\ ps[i].state = freshPadState

\* w and v have the same slots and the same streams
SameWorld(w, v) == w.pads = v.pads /\ w.streams = v.streams

(***************************************************************************)
(* C14: unassign and stop are idempotent.  Every unassign step, from       *)
(* whatever state, leaves the slot without device, without stream handle,  *)
(* inactive and at rest; unassigning or stopping the slot once more from   *)
(* there gives the same slots and streams; and an unassign step on a slot  *)
(* already in that condition changes no slot and no stream.                *)
(***************************************************************************)
C14_UnassignIdempotent ==
  [][\A i \in Slots :
       (resp' = 200 /\ uiOut' = << padAssignment(i, NoDevice) >>)
         => LET once == [pads |-> pads', streams |-> streams', ui |-> <<>>]
            IN /\ Vacant(pads', i)
               /\ SameWorld(unassign(once, i), once)
               /\ SameWorld(stopEvdevReader(once, i), once)
               /\ Vacant(pads, i) => (pads' = pads /\ streams' = streams)
    ]_vars

\* Slot 0 was unassigned again after its reader, stopped by the first
\* unassign or by a read error, had closed
C14_Witness ==
  /\ resp = 200
  /\ uiOut = << padAssignment(0, NoDevice) >>
  /\ streams = << ClosedStream >>
  /\ Vacant(pads, 0)


(***************************************************************************)
(* C15: in every reachable state a slot that is not active has its         *)
(* PadState at rest (buttons 0, sticks 128, triggers 0), so that no        *)
(* snapshot carries other values for it; in particular after a stream      *)
(* error or a close of a reader of the slot.                               *)
(***************************************************************************)
C15_InactiveAtRest ==
  \A i \in Slots : ~pads[i].active => pads[i].state = freshPadState


\* The event paths of a controller list
Paths(devs) == {c.eventPath : c \in devs}

(***************************************************************************)
(* C16: after every step, and so after every scan, the event path of each  *)
(* non-empty slot's device is among state.controllers.  A scan that finds  *)
(* a changed list leaves each slot whose device disappeared with no open   *)
(* reader, without device, inactive and at rest, with                      *)
(* padAssignment{device:null} broadcast for it, and leaves the slots whose *)
(* device is still there as they were.                                     *)
(* Refuted: the scan stops the stream the slot records.  After the 'close' *)
(* of a reader that a second assign replaced, the slot records none while  *)
(* its second reader is open: the scan empties the slot and the reader     *)
(* stays open.                                                             *)
(***************************************************************************)
C16_ScanVacatesUnplugged ==
  [][\A i \in Slots :
       /\ pads'[i].device # NoDevice
            => pads'[i].device.eventPath \in Paths(controllers')
       /\ (controllers' # controllers /\ pads[i].device # NoDevice)
            => IF pads[i].device.eventPath \in Paths(controllers')
               THEN pads'[i] = pads[i]
               ELSE /\ Vacant(pads', i)
                    /\ \A id \in 1 .. Len(streams') :
                         streams'[id].pad = i => streams'[id].status # "open"
                    /\ \E j \in 1 .. Len(uiOut') :
                         uiOut'[j] = padAssignment(i, NoDevice)
    ]_vars


(***************************************************************************)
(* SpecReject: assign and unassign requests with good and bad bodies.  The *)
(* slot index is 0, 2, below 0, above 3 or no number at all; the event     *)
(* path is one of the two devices' or a path no scan has reported.         *)
(***************************************************************************)
RejectPaths == {DevA.eventPath, DevB.eventPath, "/dev/input/event9"}
RejectIndexes == {-1, 0, 2, 4}

InitReject == InitWith(SlotDevices) /\ nm = NoProbe /\ ev = NoEvent

NextReject ==
  \/ \E curr \in SUBSET SlotDevices : Scan(curr)
  \/ \E padIndex \in RejectIndexes, eventPath \in RejectPaths :
       /\ Len(streams) < MaxStreams
       /\ ApiAssign(padIndex, eventPath, HwNone)
  \/ \E eventPath \in RejectPaths : ApiAssignBadIndex(eventPath)
  \/ \E padIndex \in RejectIndexes : ApiUnassign(padIndex)
  \/ ApiUnassignBadIndex
  \/ \E id \in 1 .. Len(streams) : StreamClose(id)

SpecReject == InitReject /\ [][NextReject]_vars

\* The step answered with an explicit error and changed no slot, stopped no
\* reader and broadcast nothing
RejectedCleanly ==
  /\ resp' \in {400, 404}
  /\ pads' = pads
  /\ streams' = streams
  /\ uiOut' = <<>>

(***************************************************************************)
(* C17: an assign request whose slot index is not one of 0 .. 3, or whose  *)
(* event path is not in state.controllers, is answered with an explicit    *)
(* error status and changes no slot, stops no reader and broadcasts        *)
(* nothing.                                                                *)
(***************************************************************************)
C17_RejectedAssignChangesNothing ==
  [][\A eventPath \in RejectPaths :
       /\ \A padIndex \in RejectIndexes :
            (/\ ApiAssign(padIndex, eventPath, HwNone)
             /\ padIndex \notin Slots \/ eventPath \notin Paths(controllers))
              => RejectedCleanly
       /\ ApiAssignBadIndex(eventPath) => RejectedCleanly
    ]_vars


(***************************************************************************)
(* SpecFull: five devices are detected.  Four of them are assigned, each   *)
(* to a slot of its own, and the fifth is assigned to any slot.            *)
(***************************************************************************)
DevC == [eventPath |-> "/dev/input/event2", vendor |-> "045e", absCaps |-> 196671]
DevD == [eventPath |-> "/dev/input/event3", vendor |-> "2dc8", absCaps |-> 196671]
DevE == [eventPath |-> "/dev/input/event4", vendor |-> "054c", absCaps |-> 196671]

FullDevices == {DevA, DevB, DevC, DevD, DevE}

FullAssigns ==
  { <<0, DevA.eventPath>>, <<1, DevB.eventPath>>, <<2, DevC.eventPath>>,
    <<3, DevD.eventPath>> } \cup { <<i, DevE.eventPath>> : i \in Slots }

InitFull ==
  /\ InitWith(FullDevices)
  /\ controllers = FullDevices
  /\ nm = NoProbe
  /\ ev = NoEvent

NextFull ==
  \/ \E a \in FullAssigns : ApiAssign(a[1], a[2], HwNone)
  \/ ApiUnassign(3)

SpecFull == InitFull /\ [][NextFull]_vars

\* Every slot holds a device
AllOccupied == \A i \in Slots : pads[i].device # NoDevice

(***************************************************************************)
(* C18: when every slot holds a device, a request to assign a detected     *)
(* device that no slot holds is answered with an error status and no slot  *)
(* loses its device.                                                       *)
(***************************************************************************)
C18_FullSetRejects ==
  [][\A a \in FullAssigns :
       (/\ AllOccupied
        /\ \A i \in Slots : pads[i].device.eventPath # a[2]
        /\ ApiAssign(a[1], a[2], HwNone))
         => /\ resp' >= 400
            /\ \A i \in Slots : pads'[i].device = pads[i].device
    ]_vars


(***************************************************************************)
(* SpecSend: one device on slot 1 delivers frames while the console client *)
(* connects, fails to connect, drops, reconnects and is replaced.          *)
(***************************************************************************)
SendBufs == { <<Key(BTN_SOUTH, 1), Syn>> }

InitSend ==
  /\ InitWith({DevA})
  /\ controllers = {DevA}
  /\ nm = NoProbe
  /\ ev = NoEvent

NextSend ==
  \/ ApiConnect("ps4.local")
  \/ \E s \in 1 .. Len(socks) : SocketOpen(s)
  \/ \E s \in 1 .. Len(socks) : SocketClose(s)
  \/ \E c \in 1 .. Len(conns) : ReconnectTimer(c)
  \/ /\ Len(streams) < 1
     /\ ApiAssign(1, DevA.eventPath, HwNone)
  \/ \E id \in 1 .. Len(streams), buf \in SendBufs : StreamData(id, buf)

SpecSend == InitSend /\ [][NextSend]_vars

\* The pad updates among the frames ws
Updates(ws) == {j \in 1 .. Len(ws) : ws[j].method = "u"}

(***************************************************************************)
(* C19: a data handler that reaches a synchronization record while the     *)
(* client is not connected writes nothing and completes (the record is     *)
(* counted); and no other step ever writes a pad update, in particular not *)
(* the step in which a socket opens later: what was dropped is not queued  *)
(* and not retried.                                                        *)
(***************************************************************************)
C19_DroppedWhenNotConnected ==
  [][/\ \A id \in 1 .. Len(streams) : \A buf \in SendBufs :
          (~ConsoleOpen /\ StreamData(id, buf))
            => (wsOut' = <<>> /\ msgCount' = msgCount + NumSyn(buf))
     /\ msgCount' = msgCount => Updates(wsOut') = {}
     /\ Cardinality(Updates(wsOut')) <= msgCount' - msgCount
    ]_vars

\* Frames were read while the client had never been open; it has now
\* opened on its second attempt or later and wrote only its info request
C19_Witness ==
  /\ msgCount >= 1
  /\ ConsoleOpen
  /\ conns[ps4Connection].attempts >= 2
  /\ conns[ps4Connection].rpcId = 1
  /\ Len(conns) = 1
  /\ Len(wsOut) = 1
  /\ wsOut[1].method = "info"
  /\ pads[1].state.buttons = ORBIS_CROSS


(***************************************************************************)
(* SpecInfo: the info requests of the console client.  Sockets open, drop  *)
(* and are reopened; the console answers with frames that echo a pending   *)
(* id, an id that is not pending, or no id; timeouts fire.  A timeout that *)
(* was set and not cleared eventually fires.                               *)
(***************************************************************************)
InfoIds == 0 .. MaxAttempts - 1
InfoFrames == [id : {-1} \cup InfoIds, result : {"1.21", ""}]

InitInfo == InitWith({}) /\ nm = NoProbe /\ ev = NoEvent

NextInfo ==
  \/ /\ Len(conns) < 1
     /\ ApiConnect("ps4.local")
  \/ \E s \in 1 .. Len(socks) : SocketOpen(s)
  \/ \E s \in 1 .. Len(socks) : SocketClose(s)
  \/ \E c \in 1 .. Len(conns) : ReconnectTimer(c)
  \/ \E s \in 1 .. Len(socks), frame \in InfoFrames : SocketMessage(s, frame)
  \/ \E c \in 1 .. Len(conns), id \in InfoIds : InfoTimeout(c, id)

SpecInfo ==
  /\ InitInfo
  /\ [][NextInfo]_vars
  /\ \A c \in 1 .. MaxConns : \A id \in InfoIds : WF_vars(InfoTimeout(c, id))

\* The ids of the info requests connection c has completed
CompletedIds(c) ==
  IF c \in 1 .. Len(conns)
  THEN {conns[c].completed[j][1] : j \in 1 .. Len(conns[c].completed)}
  ELSE {}

PendingIds(c) == IF c \in 1 .. Len(conns) THEN conns[c].pending ELSE {}

\* Every request made is pending or completed, not both; no request was
\* completed twice; a pending request has its timeout set; a client that is
\* not open registers and sends nothing when asked
InfoOnce ==
  \A c \in 1 .. Len(conns) :
    /\ PendingIds(c) \cup CompletedIds(c) = 0 .. conns[c].rpcId - 1
    /\ PendingIds(c) \cap CompletedIds(c) = {}
    /\ Cardinality(CompletedIds(c)) = Len(conns[c].completed)
    /\ conns[c].infoTimers = conns[c].pending
    /\ ~conns[c].open => getInfo(Net, c) = Net

\* What the steps of the message listener and of the timeout do
InfoSteps ==
  /\ \A s \in 1 .. Len(socks) : \A frame \in InfoFrames :
       SocketMessage(s, frame)
         => LET c == socks[s].conn IN
            IF frame.id \in PendingIds(c)
            THEN /\ conns'[c].completed = Append(conns[c].completed, <<frame.id, frame.result>>)
                 /\ conns'[c].pending = conns[c].pending \ {frame.id}
            ELSE conns' = conns /\ uiOut' = <<>>
  /\ \A c \in 1 .. Len(conns) : \A id \in InfoIds :
       InfoTimeout(c, id)
         => /\ conns'[c].completed = Append(conns[c].completed, <<id, "null">>)
            /\ conns'[c].pending = conns[c].pending \ {id}

(***************************************************************************)
(* C20: every info request completes exactly once.  A response that echoes *)
(* a pending id completes that request with its result and removes the id  *)
(* from the pending map; the timeout completes it with null and removes    *)
(* it; a frame whose id is not pending changes nothing; no request is      *)
(* completed twice; and every pending request is eventually completed.     *)
(***************************************************************************)
C20_InfoCompletesOnce ==
  /\ []InfoOnce
  /\ [][InfoSteps]_vars
  /\ \A c \in 1 .. MaxConns : \A id \in InfoIds :
       (id \in PendingIds(c)) ~> (id \in CompletedIds(c))

\* One request was answered, a later one timed out, and a late response to
\* the timed-out request has just been ignored
C20_Witness ==
  /\ Len(conns) = 1
  /\ conns[1].completed = << <<0, "1.21">>, <<1, "null">> >>
  /\ conns[1].pending = {}
  /\ conns[1].open
  /\ uiOut = <<>>
  /\ wsOut = <<>>
  /\ resp = 0


(***************************************************************************)
(* SpecUI: the UI observers.  Websockets of the UI server open, start to   *)
(* fail and close, while the tick, the scan and the assignment handlers    *)
(* broadcast one or two messages each.                                     *)
(***************************************************************************)
InitUI == InitWith({DevA}) /\ nm = NoProbe /\ ev = NoEvent

NextUI ==
  \/ WsOpen
  \/ \E u \in 1 .. Len(uiSocks) : WsClose(u)
  \/ \E u \in 1 .. Len(uiSocks) : WsFail(u)
  \/ Tick
  \/ \E curr \in SUBSET {DevA} : Scan(curr)
  \/ \E i \in {0, 2} :
       /\ \E c \in controllers : c.eventPath = DevA.eventPath
       /\ Len(streams) < MaxStreams
       /\ ApiAssign(i, DevA.eventPath, HwNone)
  \/ ApiUnassign(0)

SpecUI == InitUI /\ [][NextUI]_vars

\* The observers in the set
Members(clients) == {clients[j] : j \in 1 .. Len(clients)}

\* The step is a handler other than websocket.open and websocket.close
Broadcasting ==
  /\ Len(uiSocks') = Len(uiSocks)
  /\ ~\E u \in 1 .. Len(uiSocks) : WsClose(u) \/ WsFail(u)

(***************************************************************************)
(* C21: in a handler that broadcasts, every observer in the set whose send *)
(* succeeds is sent exactly the handler's messages, once each and in       *)
(* order, and stays in the set, whatever happens to the other observers;   *)
(* every observer in the set whose send fails leaves the set during the    *)
(* first broadcast and is sent nothing; and an observer that is not in the *)
(* set is sent nothing by any handler and never rejoins.                   *)
(***************************************************************************)
C21_BroadcastDelivery ==
  [][/\ Broadcasting
        => \A u \in Members(uiClients) :
             IF uiSocks[u].status = "open"
             THEN uiSocks'[u].got = uiOut' /\ u \in Members(uiClients')
             ELSE uiOut' # <<>>
                    => uiSocks'[u].got = <<>> /\ u \notin Members(uiClients')
     /\ \A u \in 1 .. Len(uiSocks) :
          (u \notin Members(uiClients) /\ ~WsFail(u))
            => uiSocks'[u].got = <<>> /\ u \notin Members(uiClients')
    ]_vars

\* Of three observers the second failed and was removed by a handler that
\* broadcast two messages, both of which reached the first and the third
C21_Witness ==
  /\ Len(uiSocks) = 3
  /\ uiClients = <<1, 3>>
  /\ uiSocks[2].status = "failing"
  /\ uiSocks[2].got = <<>>
  /\ Len(uiOut) = 2
  /\ uiSocks[1].got = uiOut
  /\ uiSocks[3].got = uiOut

(***************************************************************************)
(* C22: every observer has been sent exactly one fullState, and it was the *)
(* first message the observer was sent.                                    *)
(***************************************************************************)
C22_SnapshotFirstAndOnce ==
  \A u \in 1 .. Len(uiSocks) :
    /\ uiSocks[u].first = "fullState"
    /\ uiSocks[u].snapshots = 1

\* An observer that got its snapshot earlier has just been sent a tick and,
\* in another handler before, a notice
C22_Witness ==
  /\ Len(uiSocks) = 2
  /\ uiSocks[1].snapshots = 1
  /\ uiSocks[1].first = "fullState"
  /\ Len(uiSocks[1].got) = 1
  /\ uiSocks[1].got[1].type = "padStates"
  /\ uiSocks[2].status = "open"
  /\ pads[2].device = DevA


\* The six analog channels of a PadState
Channels == {"lx", "ly", "rx", "ry", "l2", "r2"}

(***************************************************************************)
(* C23: each of the six analog channels of a slot's PadState is within     *)
(* 0..255 after the reader handled a record, whatever the capabilities,    *)
(* the record and the range map (SpecEvent: the state before the record    *)
(* has every channel within 0..255).                                       *)
(***************************************************************************)
C23_ChannelsWithinByte ==
  \A ch \in Channels : ev.cur[ch] \in 0 .. 255


(***************************************************************************)
(* SpecHid: the kiosk dashboard's mouse and key requests, with the helper  *)
(* spawned or not.                                                         *)
(***************************************************************************)
HidDeltas == {-32768, -1, 0, 1, 300, 32767}
HidButtons == {0, 1, 2, 7}
HidPressed == {0, 1}
HidKeycodes == {0, 28, 30, 65535}

InitHid ==
  /\ InitPads({})
  /\ InitKiosk(BOOLEAN)
  /\ nm = NoProbe /\ ev = NoEvent /\ rt = NoTrip

NextHid ==
  \/ \E dx \in HidDeltas, dy \in HidDeltas : KioskMove(dx, dy)
  \/ \E button \in HidButtons, pressed \in HidPressed : KioskClick(button, pressed)
  \/ \E delta \in HidDeltas : KioskScroll(delta)
  \/ \E kc \in HidKeycodes, pressed \in HidPressed : KioskKey(kc, pressed)

SpecHid == InitHid /\ [][NextHid]_vars

\* The records of a write, decoded at the evdev record offsets
Records(bytes) ==
  [j \in 1 .. Len(bytes) \div EVENT_SIZE |-> decodeRecord(bytes, (j - 1) * EVENT_SIZE)]

\* The timestamp bytes of every record of a write are zero, and the write
\* is a whole number of records
WholeRecords(bytes) ==
  /\ Len(bytes) % EVENT_SIZE = 0
  /\ \A j \in 1 .. Len(bytes) : (j - 1) % EVENT_SIZE < 16 => bytes[j] = 0

Rec(type, code, value) == [type |-> type, code |-> code, value |-> value]

\* The handler made one write, of exactly the records recs
Wrote(recs) ==
  /\ Len(stdin') = 1
  /\ WholeRecords(stdin'[1])
  /\ Records(stdin'[1]) = recs

(***************************************************************************)
(* C24: with the helper running, a mouse move writes exactly REL_X(dx),    *)
(* REL_Y(dy), SYN_REPORT; a click, a scroll tick and a key press or        *)
(* release write exactly one event record followed by SYN_REPORT; each is  *)
(* one write of whole 24-byte records with zero timestamps, whatever the   *)
(* buffer held before.                                                     *)
(***************************************************************************)
C24_WholeRecordsEndingInSyn ==
  [][mouseProc =>
       /\ \A dx \in HidDeltas, dy \in HidDeltas :
            (KioskMove(dx, dy) /\ (dx # 0 \/ dy # 0))
              => Wrote(<< Rec(EV_REL, REL_X, dx), Rec(EV_REL, REL_Y, dy),
                          Rec(EV_SYN, SYN_REPORT, 0) >>)
       /\ \A button \in HidButtons, pressed \in HidPressed :
            KioskClick(button, pressed)
              => \E btn \in {BTN_LEFT, BTN_RIGHT, BTN_MIDDLE} :
                   Wrote(<< Rec(EV_KEY, btn, pressed), Rec(EV_SYN, SYN_REPORT, 0) >>)
       /\ \A delta \in HidDeltas :
            KioskScroll(delta)
              => Wrote(<< Rec(EV_REL, REL_WHEEL, delta), Rec(EV_SYN, SYN_REPORT, 0) >>)
       /\ \A kc \in HidKeycodes \ {0}, pressed \in HidPressed :
            KioskKey(kc, pressed)
              => Wrote(<< Rec(EV_KEY, kc, pressed), Rec(EV_SYN, SYN_REPORT, 0) >>)
    ]_vars

\* A click was written after a mouse move had filled all three records of
\* the buffer: the write is the click and SYN_REPORT, and the buffer's third
\* record is cleared
C24_Witness ==
  /\ mouseProc
  /\ Len(stdin) = 1
  /\ Records(stdin[1]) = << Rec(EV_KEY, BTN_RIGHT, 1), Rec(EV_SYN, SYN_REPORT, 0) >>
  /\ decodeRecord(eventBuf, EVENT_SIZE * 2) = Rec(0, 0, 0)

(***************************************************************************)
(* C26: without the helper process every mouse-move, click, scroll and key *)
(* request writes nothing.                                                 *)
(***************************************************************************)
C26_NoHelperNoWrite ==
  [][~mouseProc => stdin' = <<>> /\ ~mouseProc']_vars

\* A request was handled without the helper: the buffer holds its records
\* and nothing was written
C26_Witness ==
  /\ ~mouseProc
  /\ stdin = <<>>
  /\ decodeRecord(eventBuf, 0) = Rec(EV_KEY, 30, 1)


(***************************************************************************)
(* SpecCodec: one record written by the encoder of the kiosk dashboard     *)
(* into an empty buffer and decoded by the data handler of the evdev       *)
(* reader.                                                                 *)
(***************************************************************************)
CodecWords == {0, 1, 2, 3, 255, 256, 272, 32767, 32768, 65535}
CodecValues ==
  {-2147483647 - 1, -2147483647, -16777216, -65536, -32768, -256, -1, 0, 1, 127, 128,
   255, 256, 65535, 65536, 16777215, 16777216, 2147483647}

InitCodec ==
  /\ InitPads({})
  /\ InitKiosk({TRUE})
  /\ nm = NoProbe /\ ev = NoEvent
  /\ rt \in [type : CodecWords, code : CodecWords, value : CodecValues,
             out : {NoTrip.out}, done : {FALSE}]

RoundTrip ==
  /\ ~rt.done
  /\ eventBuf' = writeEvent(eventBuf, 0, rt.type, rt.code, rt.value)
  /\ rt' = [rt EXCEPT !.out = decodeRecord(eventBuf', 0), !.done = TRUE]
  /\ UNCHANGED <<padVars, connVars, outVars, uiVars, histVars, nm, ev, mouseProc,
                 stdin, cdp, auxVars>>

NextCodec == RoundTrip

SpecCodec == InitCodec /\ [][NextCodec]_vars

(***************************************************************************)
(* C25: a record written by writeEvent decodes, with the evdev reader's    *)
(* offsets, to the type, code and value that were written, for types and   *)
(* codes in 0..65535 and signed 32-bit values.                             *)
(***************************************************************************)
C25_RoundTrip ==
  rt.done => rt.out = [type |-> rt.type, code |-> rt.code, value |-> rt.value]

\* A negative value with distinct bytes, and a type and code above 255,
\* made the round trip
C25_Witness ==
  /\ rt.done
  /\ rt.value = -16777216
  /\ rt.type = 272
  /\ rt.code = 65535
  /\ rt.out.value = -16777216


(***************************************************************************)
(* SpecCdp: special-key and text messages of the kiosk dashboard; the      *)
(* browser has a page target or none, its debugging socket opens, fails    *)
(* and closes, and it answers, answers with an error or stays silent.      *)
(***************************************************************************)
CdpKeyIds == {0, 2}
CdpTexts == {<<>>, <<97>>}
NavRoutes == {"navigate", "nav-state", "nav-back", "nav-forward"}
CdpTargets == {"page", "none", "noUrl"}

InitCdp ==
  /\ InitPads({})
  /\ InitKiosk({TRUE})
  /\ nm = NoProbe /\ ev = NoEvent /\ rt = NoTrip

NextCdp ==
  \/ \E id \in CdpKeyIds : KioskSpecialKey(id)
  \/ \E text \in CdpTexts : KioskText(text)
  \/ \E p \in 1 .. Len(cdp.keys), target \in CdpTargets : CdpTarget(p, target)
  \/ \E s \in 1 .. Len(cdp.socks) : CdpOpen(s)
  \/ \E s \in 1 .. Len(cdp.socks) : CdpClose(s)
  \/ \E p \in 1 .. Len(cdp.keys) : CdpConnectTimeout(p)
  \/ \E p \in 1 .. Len(cdp.keys), ok \in BOOLEAN : CdpResponse(p, ok)
  \/ \E p \in 1 .. Len(cdp.keys) : CdpTimeout(p)
  \/ \E route \in NavRoutes : KioskNav(route)
  \/ \E n \in 1 .. Len(cdp.navs), target \in CdpTargets : NavTarget(n, target)
  \/ \E n \in 1 .. Len(cdp.navs) : NavOpen(n)
  \/ \E n \in 1 .. Len(cdp.navs) : NavFail(n)
  \/ \E n \in 1 .. Len(cdp.navs), more \in BOOLEAN : NavResponse(n, more)

SpecCdp == InitCdp /\ [][NextCdp]_vars

(***************************************************************************)
(* C27: a dispatch call for a special key that has ended has issued        *)
(* exactly one keyDown followed by exactly one keyUp, and a call that      *)
(* awaits the response to its keyDown has not issued the keyUp.            *)
(***************************************************************************)
C27_KeyDownThenKeyUp ==
  \A p \in 1 .. Len(cdp.keys) :
    cdp.keys[p].op = "key" =>
    /\ cdp.keys[p].pc \in {"returned", "threw"}
         => cdp.keys[p].calls = <<"keyDown", "keyUp">>
    /\ cdp.keys[p].pc = "awaitDown" => cdp.keys[p].calls = <<"keyDown">>


(***************************************************************************)
(* SpecSyn: a reader whose device delivers synchronization records of      *)
(* several codes (SYN_REPORT = 0, SYN_DROPPED = 3), with the console       *)
(* connected or not.                                                       *)
(***************************************************************************)
SynDropped == [type |-> EV_SYN, code |-> 3, value |-> 0]

SynBufs ==
  { <<Key(BTN_SOUTH, 1), Syn>>, <<Key(BTN_SOUTH, 0), SynDropped>>,
    <<Key(BTN_EAST, 1)>>, <<Syn, SynDropped>> }

InitSyn ==
  /\ InitWith({DevA})
  /\ controllers = {DevA}
  /\ nm = NoProbe
  /\ ev = NoEvent

NextSyn ==
  \/ ApiConnect("ps4.local")
  \/ \E s \in 1 .. Len(socks) : SocketOpen(s)
  \/ \E s \in 1 .. Len(socks) : SocketClose(s)
  \/ /\ Len(streams) < 1
     /\ ApiAssign(1, DevA.eventPath, HwNone)
  \/ \E id \in 1 .. Len(streams), buf \in SynBufs : StreamData(id, buf)

SpecSyn == InitSyn /\ [][NextSyn]_vars

\* The records of buf that are EV_SYN with code SYN_REPORT
Reports(buf) ==
  Cardinality({j \in 1 .. Len(buf) : buf[j].type = EV_SYN /\ buf[j].code = SYN_REPORT})

(***************************************************************************)
(* C28: a data handler pushes one pad state (with the console connected)   *)
(* and increments the message counter once for every record of type SYN    *)
(* with code SYN_REPORT, and for no other record.                          *)
(***************************************************************************)
C28_PushOnlyOnSynReport ==
  [][\A id \in 1 .. Len(streams), buf \in SynBufs :
       StreamData(id, buf)
         => /\ msgCount' = msgCount + Reports(buf)
            /\ ConsoleOpen => Cardinality(Updates(wsOut')) = Reports(buf)
    ]_vars


(***************************************************************************)
(* SpecFixed: one event path whose device is scanned with changing         *)
(* capabilities (first as a standard pad, later as a gas/brake pad), is    *)
(* assigned to slot 0 and unassigned, and delivers axis records.           *)
(***************************************************************************)
DevA2 == [DevA EXCEPT !.absCaps = DevB.absCaps]

FixedScans == { {}, {DevA}, {DevA2} }
FixedBufs == { <<Abs(ABS_Z, 200)>>, <<Abs(ABS_BRAKE, 100), Syn>> }

InitFixed ==
  /\ InitWith({})
  /\ nm = NoProbe
  /\ ev = NoEvent

NextFixed ==
  \/ \E curr \in FixedScans : Scan(curr)
  \/ \E hw \in {HwNone, HwWide} :
       /\ \E c \in controllers : c.eventPath = DevA.eventPath
       /\ Len(streams) < MaxStreams
       /\ ApiAssign(0, DevA.eventPath, hw)
  \/ ApiUnassign(0)
  \/ \E id \in 1 .. Len(streams) : StreamClose(id)
  \/ \E id \in 1 .. Len(streams), buf \in FixedBufs : StreamData(id, buf)

SpecFixed == InitFixed /\ [][NextFixed]_vars

\* The reader recorded by slot i runs with the layout of the slot's device
\* record and with the slot's range map
ReaderAsAssigned(i) ==
  pads[i].stream # 0
    => /\ streams[pads[i].stream].status = "open"
       /\ streams[pads[i].stream].layout = detectAxisLayout(pads[i].device.absCaps)
       /\ streams[pads[i].stream].ranges = pads[i].axisRanges

\* While slot i records the same reader, its device record, its range map
\* and the reader's layout and ranges stay what they are
ReaderKept(i) ==
  (pads[i].stream # 0 /\ pads'[i].stream = pads[i].stream)
    => /\ pads'[i].device = pads[i].device
       /\ pads'[i].axisRanges = pads[i].axisRanges
       /\ streams'[pads[i].stream].layout = streams[pads[i].stream].layout
       /\ streams'[pads[i].stream].ranges = streams[pads[i].stream].ranges

(***************************************************************************)
(* C29: the layout and the range map of a slot's reader are those computed *)
(* at the assignment: they are the layout of the device record the slot    *)
(* was given and the slot's range map, and they stay the same while the    *)
(* slot records the reader, whatever later scans report for the event      *)
(* path; a reader is recorded only by an assignment; and every reader      *)
(* keeps its layout and ranges while it is open and handles every chunk    *)
(* with them.                                                              *)
(***************************************************************************)
C29_LayoutFixedAtAssignment ==
  /\ [](\A i \in Slots : ReaderAsAssigned(i))
  /\ [][/\ \A i \in Slots : ReaderKept(i)
        /\ \A i \in Slots :
             (pads'[i].stream # 0 /\ pads'[i].stream # pads[i].stream)
               => resp' = 200 /\ pads'[i].stream = Len(streams')
        /\ \A id \in 1 .. Len(streams) :
             (streams[id].status = "open" /\ streams'[id].status = "open")
               => /\ streams'[id].layout = streams[id].layout
                  /\ streams'[id].ranges = streams[id].ranges
        /\ \A id \in 1 .. Len(streams), buf \in FixedBufs :
             StreamData(id, buf)
               => LET i == streams[id].pad
                  IN pads'[i].state = ApplyAll(pads[i].state, streams[id].layout,
                                               streams[id].ranges, buf)
       ]_vars

\* The device assigned as a standard pad is now scanned as a gas/brake pad,
\* and its reader has handled ABS_Z as the left trigger
C29_Witness ==
  /\ controllers = {DevA2}
  /\ pads[0].device = DevA
  /\ pads[0].stream # 0
  /\ streams[pads[0].stream].layout = "standard"
  /\ pads[0].state.l2 = 200
  /\ pads[0].state.rx = 128


(***************************************************************************)
(* SpecRpc: one console connection that opens, drops and reopens, asks for *)
(* the console's info on every open, receives frames with pending,         *)
(* unknown and missing ids, and carries the pad updates of one reader.     *)
(***************************************************************************)
InitRpc ==
  /\ InitWith({DevA})
  /\ controllers = {DevA}
  /\ nm = NoProbe
  /\ ev = NoEvent

NextRpc ==
  \/ /\ Len(conns) < 1
     /\ ApiConnect("ps4.local")
  \/ \E s \in 1 .. Len(socks) : SocketOpen(s)
  \/ \E s \in 1 .. Len(socks) : SocketClose(s)
  \/ \E c \in 1 .. Len(conns) : ReconnectTimer(c)
  \/ \E s \in 1 .. Len(socks), frame \in InfoFrames : SocketMessage(s, frame)
  \/ \E c \in 1 .. Len(conns), id \in InfoIds : InfoTimeout(c, id)
  \/ /\ Len(streams) < 1
     /\ ApiAssign(1, DevA.eventPath, HwNone)
  \/ \E id \in 1 .. Len(streams), buf \in SendBufs : StreamData(id, buf)

SpecRpc == InitRpc /\ [][NextRpc]_vars

\* The ids connection c has issued so far are those below its counter
IssuedBelowCounter ==
  \A c \in 1 .. Len(conns) :
    PendingIds(c) \cup CompletedIds(c) = 0 .. conns[c].rpcId - 1

\* The info requests among the frames ws
InfoRequests(ws) == {j \in 1 .. Len(ws) : ws[j].method = "info"}

(***************************************************************************)
(* C30: the ids a connection issues are strictly increasing: every id      *)
(* issued so far is below the counter, the counter never decreases, and a  *)
(* new request takes the counter's value as id and advances the counter.   *)
(* A response removes from the pending map, and completes, only the id it  *)
(* echoes; a frame with a missing or unknown id, and a data handler that   *)
(* sends pad updates, leave the pending map and the counter unchanged.     *)
(***************************************************************************)
C30_IdsIncreaseAndMatch ==
  /\ []IssuedBelowCounter
  /\ [][/\ \A c \in 1 .. Len(conns) :
             /\ conns'[c].rpcId >= conns[c].rpcId
             /\ conns'[c].pending \ conns[c].pending
                  = conns[c].rpcId .. conns'[c].rpcId - 1
             /\ conns'[c].rpcId <= conns[c].rpcId + 1
        /\ \A j \in InfoRequests(wsOut') :
             \E c \in 1 .. Len(conns) :
               wsOut'[j].id = conns[c].rpcId /\ conns'[c].rpcId = conns[c].rpcId + 1
        /\ \A s \in 1 .. Len(socks), frame \in InfoFrames :
             SocketMessage(s, frame)
               => LET c == socks[s].conn IN
                  /\ conns'[c].rpcId = conns[c].rpcId
                  /\ conns'[c].pending = conns[c].pending \ {frame.id}
                  /\ conns'[c].completed =
                       IF frame.id \in conns[c].pending
                       THEN Append(conns[c].completed, <<frame.id, frame.result>>)
                       ELSE conns[c].completed
        /\ \A id \in 1 .. Len(streams), buf \in SendBufs :
             StreamData(id, buf) => conns' = conns
       ]_vars

\* Two requests are in flight with the ids 1 and 2, request 0 was answered,
\* and the last handler sent a pad update
C30_Witness ==
  /\ Len(conns) = 1
  /\ conns[1].pending = {1, 2}
  /\ conns[1].rpcId = 3
  /\ conns[1].completed = << <<0, "1.21">> >>
  /\ Updates(wsOut) # {}


(***************************************************************************)
(* C31: the message counter never decreases, and a handler raises it by    *)
(* exactly the number of pad updates the handler sent to the console.      *)
(***************************************************************************)
C31_CounterCountsSentUpdates ==
  [][/\ msgCount' >= msgCount
     /\ msgCount' - msgCount =
          IF \E id \in 1 .. Len(streams), buf \in SendBufs : StreamData(id, buf)
          THEN Cardinality(Updates(wsOut'))
          ELSE 0
    ]_vars


\* The record handled was a hat record of the given axis
HatHandled(code) == ev.done /\ ev.rec.type = EV_ABS /\ ev.rec.code = code

\* After the record, the bit neg is set iff the value was negative and the
\* bit pos iff it was positive, and every other bit is as before
HatBits(neg, pos) ==
  /\ HasBit(ev.cur.buttons, neg) <=> ev.rec.value < 0
  /\ HasBit(ev.cur.buttons, pos) <=> ev.rec.value > 0
  /\ ClearBit(ClearBit(ev.cur.buttons, neg), pos)
       = ClearBit(ClearBit(ev.prev.buttons, neg), pos)

(***************************************************************************)
(* C32: after an ABS_HAT0X record with value v, LEFT is set iff v < 0 and  *)
(* RIGHT iff v > 0; after an ABS_HAT0Y record, UP iff v < 0 and DOWN iff   *)
(* v > 0; the other button bits and the six analog channels are as         *)
(* before.                                                                 *)
(***************************************************************************)
C32_HatSetsDirectionBits ==
  /\ HatHandled(ABS_HAT0X) => HatBits(ORBIS_LEFT, ORBIS_RIGHT)
  /\ HatHandled(ABS_HAT0Y) => HatBits(ORBIS_UP, ORBIS_DOWN)
  /\ (HatHandled(ABS_HAT0X) \/ HatHandled(ABS_HAT0Y))
       => \A ch \in Channels : ev.cur[ch] = ev.prev[ch]

\* The pad held LEFT and DOWN when the hat moved right: LEFT was cleared,
\* RIGHT set, DOWN and CROSS kept
C32_Witness ==
  /\ HatHandled(ABS_HAT0X)
  /\ ev.rec.value = 1
  /\ ev.prev.buttons = ORBIS_LEFT + ORBIS_DOWN + ORBIS_CROSS
  /\ ev.cur.buttons = ORBIS_RIGHT + ORBIS_DOWN + ORBIS_CROSS


(***************************************************************************)
(* C40: for any interleaving of insertText and dispatchKey operations,     *)
(* several of them issued before the auxiliary keyboard connection has     *)
(* opened included, at most one auxiliary connection exists (connecting or *)
(* open) and every send is made on a connection that is open.             *)
(* Refuted: getCdpKeyboardWs tests `cdpKbdWs && cdpKbdReady`, which is     *)
(* false while the first connection is still opening, so every operation   *)
(* issued meanwhile creates a connection of its own; the operation whose   *)
(* connection opens first then sends on cdpKbdWs, the connection created   *)
(* last, which is still connecting.                                        *)
(***************************************************************************)
LiveSocks == {s \in 1 .. Len(cdp.socks) : cdp.socks[s] # "closed"}

C40_OneAuxConnectionSendsWhenOpen ==
  /\ Cardinality(LiveSocks) <= 1
  /\ \A i \in 1 .. Len(cdp.sent) : cdp.sent[i].state = "open"


(***************************************************************************)
(* SpecMsg: the kiosk dashboard handles control frames of every type, of   *)
(* every length around the least one of its type, and messages that are    *)
(* not binary, while the keyboard operations it starts get their target.   *)
(***************************************************************************)
MsgFrames ==
  { <<>>, <<0>>, <<1>>, <<1, 1, 0, 0>>, <<1, 1, 0, 255, 255>>, <<1, 0, 0, 0, 0>>,
    <<2>>, <<2, 1>>, <<2, 1, 1>>, <<2, 0, 0, 9, 9>>, <<3, 5>>, <<3, 255, 255>>,
    <<4, 30, 0>>, <<4, 30, 0, 1>>, <<4, 0, 0, 1>>, <<5>>, <<5, 97>>, <<5, 65, 195>>,
    <<5, 239, 187, 191>>, <<6>>, <<6, 0>>, <<6, 11>>, <<6, 12>>,
    <<7, 1, 2>>, <<255, 0, 0, 0, 0>> }

Messages ==
  {[binary |-> TRUE, bytes |-> f] : f \in MsgFrames}
    \cup {[binary |-> FALSE, bytes |-> <<1, 1, 0, 0, 0>>]}

InitMsg ==
  /\ InitPads({})
  /\ InitKiosk({TRUE})
  /\ nm = NoProbe /\ ev = NoEvent /\ rt = NoTrip

NextMsg ==
  \/ \E msg \in Messages : KioskMessage(msg)
  \/ \E p \in 1 .. Len(cdp.keys) : CdpTarget(p, "page")

SpecMsg == InitMsg /\ [][NextMsg]_vars

(***************************************************************************)
(* C33: every incoming binary control frame performs at most one action,   *)
(* the one its leading byte 0x01..0x06 selects: a write of the mouse move, *)
(* click, scroll or raw key event, or the start of a text insert or of a   *)
(* special key.  An empty, too short or unknown-type frame, and a special  *)
(* key id outside 1..11, performs no action and changes no state.          *)
(***************************************************************************)
\* The least length of a frame of each type
MinLength(type) ==
  CASE type = 1 -> 5 [] type = 2 -> 3 [] type = 3 -> 3 [] type = 4 -> 4
    [] type = 5 -> 2 [] type = 6 -> 2

NoActionFrame(buf) ==
  \/ Len(buf) < 1
  \/ buf[1] \notin 1 .. 6
  \/ Len(buf) < MinLength(buf[1])
  \/ buf[1] = 6 /\ buf[2] \notin 1 .. 11

\* The first record of the write made by the handler
Written == decodeRecord(stdin'[1], 0)

Started == Len(cdp'.keys) - Len(cdp.keys)

SelectedBy(buf) ==
  /\ stdin' # <<>> =>
       \/ buf[1] = 1 /\ Written.type = EV_REL /\ Written.code = REL_X
       \/ buf[1] = 2 /\ Written.type = EV_KEY
                     /\ Written.code \in {BTN_LEFT, BTN_RIGHT, BTN_MIDDLE}
       \/ buf[1] = 3 /\ Written.type = EV_REL /\ Written.code = REL_WHEEL
       \/ buf[1] = 4 /\ Written.type = EV_KEY /\ Written.code = buf[2] + 256 * buf[3]
  /\ Started = 1 =>
       \/ buf[1] = 5 /\ cdp'.keys[Len(cdp'.keys)].op = "text"
       \/ buf[1] = 6 /\ cdp'.keys[Len(cdp'.keys)].op = "key"
                     /\ cdp'.keys[Len(cdp'.keys)].key = SPECIAL_KEY_IDS[buf[2]]

C33_OneActionPerFrame ==
  [][\A msg \in Messages :
       (msg.binary /\ KioskMessage(msg)) =>
         /\ Len(stdin') + Started \in {0, 1}
         /\ SelectedBy(msg.bytes)
         /\ NoActionFrame(msg.bytes) =>
              /\ stdin' = <<>>
              /\ eventBuf' = eventBuf
              /\ cdp' = Cdp
    ]_vars

\* A raw key frame has been handled and its event written, with nothing
\* started on the keyboard channel
C33_Witness ==
  /\ Len(stdin) = 1
  /\ decodeRecord(stdin[1], 0) = [type |-> EV_KEY, code |-> 30, value |-> 1]
  /\ cdp.keys # <<>>
  /\ cdp.sent = <<>>


(***************************************************************************)
(* C34: at any time a connection has at most one reconnect timer pending   *)
(* and at most one socket that is connecting or open.                      *)
(***************************************************************************)
LiveSockets(c) ==
  {s \in 1 .. Len(socks) : socks[s].conn = c /\ socks[s].status \in {"connecting", "open"}}

C34_OneTimerOneSocket ==
  \A c \in 1 .. Len(conns) :
    /\ conns[c].timers <= 1
    /\ Cardinality(LiveSockets(c)) <= 1

\* A connection on its second socket, the first one lost, and a connection
\* that lost its socket and waits for its timer
C34_Witness ==
  \E c \in 1 .. Len(conns) :
    /\ conns[c].attempts = 2
    /\ Cardinality(LiveSockets(c)) = 1
    /\ \E s \in 1 .. Len(socks) : socks[s].conn = c /\ socks[s].status = "closed"

(***************************************************************************)
(* C39: for every interleaving of connect, disconnect, socket open and     *)
(* socket close, the process-wide connected flag is true exactly when the  *)
(* current connection's socket is open.                                    *)
(* Refuted: the close listener of a replaced connection's socket sets      *)
(* state.ps4Connected = false after the new connection's socket opened.    *)
(***************************************************************************)
CurrentSocketOpen ==
  /\ ps4Connection # 0
  /\ conns[ps4Connection].ws # 0
  /\ socks[conns[ps4Connection].ws].status = "open"

C39_ConnectedIffCurrentSocketOpen == ps4Connected <=> CurrentSocketOpen


(***************************************************************************)
(* C38: every open reader stream is the one its slot records as current,   *)
(* at most one reader feeds a slot, and no pad update is pushed for a slot *)
(* that is empty or inactive.                                              *)
(* Refuted: the close listener of a reader that a re-assign stopped clears *)
(* slot.stream although the slot already records the new reader (see C2);  *)
(* the new reader stays open, unrecorded, and goes on pushing updates for  *)
(* the slot, which is now inactive; a later unassign cannot stop it and    *)
(* the next assign starts a second reader beside it.                       *)
(***************************************************************************)
OpenReaders(i) ==
  {id \in 1 .. Len(streams) : streams[id].status = "open" /\ streams[id].pad = i}

ReadersRecorded ==
  /\ \A id \in 1 .. Len(streams) :
       streams[id].status = "open" => pads[streams[id].pad].stream = id
  /\ \A i \in Slots : Cardinality(OpenReaders(i)) <= 1

PushOnlyForActiveSlot ==
  \A id \in 1 .. Len(streams), buf \in ReaderBufs :
    (StreamData(id, buf) /\ Updates(wsOut') # {}) =>
      /\ pads[streams[id].pad].device # NoDevice
      /\ pads[streams[id].pad].active

C38_OpenReaderIsSlotsCurrent ==
  /\ []ReadersRecorded
  /\ [][PushOnlyForActiveSlot]_vars


(***************************************************************************)
(* SpecKbd: the keyboard box of the kiosk dashboard's page gets values     *)
(* with plain letters, a two-byte letter and characters outside the basic  *)
(* plane, and Enter, while the page's socket opens and closes.             *)
(***************************************************************************)
KbdValues ==
  { <<>>, <<97>>, <<97, 98>>, <<97, 233>>, <<98>>, <<55357, 56832>>,
    <<55357, 56833>>, <<97, 55357, 56832>>, <<98, 97>>, <<97, 98, 99>>, <<233>>,
    <<99>>, <<97, 98, 98>>, <<98, 99>>, <<233, 97>> }

KbdKeys ==
  {"Enter", "Tab", "Escape", "ArrowUp", "ArrowDown", "ArrowLeft", "ArrowRight",
   "Backspace", "Delete", "Home", "a"}

InitKbd ==
  /\ InitPads({})
  /\ InitKiosk({TRUE})
  /\ nm = NoProbe /\ ev = NoEvent /\ rt = NoTrip

NextKbd ==
  \/ \E cur \in KbdValues : KbdInput(cur)
  \/ \E key \in KbdKeys : KbdKeydown(key)
  \/ KbdGo
  \/ \E open \in BOOLEAN : KbdSocket(open)

SpecKbd == InitKbd /\ [][NextKbd]_vars

\* The text a UTF-8 decoder (the TextDecoder of src/unnamed/part_001:1667)
\* reads from well-formed bytes, as UTF-16 code units
RECURSIVE utf16(_)
utf16(bytes) ==
  IF bytes = <<>> THEN <<>>
  ELSE IF bytes[1] < 128 THEN <<bytes[1]>> \o utf16(Tail(bytes))
  ELSE IF bytes[1] < 224
  THEN <<(bytes[1] - 192) * 64 + (bytes[2] - 128)>> \o utf16(SubSeq(bytes, 3, Len(bytes)))
  ELSE IF bytes[1] < 240
  THEN <<(bytes[1] - 224) * 4096 + (bytes[2] - 128) * 64 + (bytes[3] - 128)>>
         \o utf16(SubSeq(bytes, 4, Len(bytes)))
  ELSE LET v == (bytes[1] - 240) * 262144 + (bytes[2] - 128) * 4096
                  + (bytes[3] - 128) * 64 + (bytes[4] - 128) - 65536
       IN <<55296 + (v \div 1024), 56320 + (v % 1024)>>
            \o utf16(SubSeq(bytes, 5, Len(bytes)))

\* The length of the longest common prefix of two values
LongestCommonPrefix(prev, cur) ==
  CHOOSE p \in 0 .. Len(prev) :
    /\ p <= Len(cur)
    /\ SubSeq(prev, 1, p) = SubSeq(cur, 1, p)
    /\ p = Len(prev) \/ p = Len(cur) \/ prev[p + 1] # cur[p + 1]

\* out is n Backspace frames followed by a text frame that carries added
EmitsDiff(out, n, added) ==
  /\ Len(out) = n + (IF added # <<>> THEN 1 ELSE 0)
  /\ \A j \in 1 .. n : out[j] = <<CDP_KEY, 1>>
  /\ added # <<>> => /\ out[n + 1][1] = CDP_TEXT
                     /\ utf16(Tail(out[n + 1])) = added

(***************************************************************************)
(* C35: for any previous and current value of the box, with p the length   *)
(* of their longest common prefix, deleting length(prev) - p characters    *)
(* from the end of prev and appending cur from position p on yields cur;   *)
(* the input listener emits exactly these backspaces followed by that      *)
(* text, and nothing when cur equals prev.                                 *)
(* Refuted: the frames are dropped while the page's socket is not open,    *)
(* although kbdPrev advances; and a prefix that ends inside a surrogate    *)
(* pair leaves a lone surrogate in the text, which the encoder replaces by *)
(* U+FFFD.                                                                 *)
(***************************************************************************)
C35_PrefixDiffEmitted ==
  [][\A cur \in KbdValues :
       KbdInput(cur) =>
         LET prev == kbd.prev
             p == LongestCommonPrefix(prev, cur)
             n == Len(prev) - p
             added == SubSeq(cur, p + 1, Len(cur))
         IN /\ SubSeq(prev, 1, Len(prev) - n) \o added = cur
            /\ cur = prev => kbd'.out = <<>>
            /\ cur # prev => EmitsDiff(kbd'.out, n, added)
    ]_vars

(***************************************************************************)
(* SpecBt: pairDevice calls for two devices, each going through its steps  *)
(* to a return or an exception, registrations of the agent (the one of     *)
(* start-up, line 1463, is under way at first), its release, discovery     *)
(* requests, and requests of BlueZ to the agent.                           *)
(***************************************************************************)
BtDevices == {"/org/bluez/hci0/dev_A", "/org/bluez/hci0/dev_B"}
AgentMethods ==
  {"RequestPinCode", "RequestPasskey", "RequestConfirmation", "RequestAuthorization"}
PairResults == {"success", "error"}

InitBt ==
  /\ InitPads({})
  /\ InitKiosk({TRUE})
  /\ nm = NoProbe /\ ev = NoEvent /\ rt = NoTrip

NextBt ==
  \/ \E dev \in BtDevices : BtPair(dev)
  \/ \E p \in 1 .. Len(bt.calls) : BtPairable(p)
  \/ \E p \in 1 .. Len(bt.calls), result \in PairResults : BtExit(p, result)
  \/ \E p \in 1 .. Len(bt.calls), ok \in BOOLEAN : BtReturn(p, ok)
  \/ \E dev \in BtDevices, method \in AgentMethods : BtAgent(dev, method)
  \/ \E ok \in BOOLEAN : BtRegistered(ok)
  \/ BtRelease
  \/ BtDiscovery

SpecBt == InitBt /\ [][NextBt]_vars

\* The pairDevice calls for dev that started a flow and have not returned
Flows(dev) ==
  {p \in 1 .. Len(bt.calls) :
     bt.calls[p].dev = dev /\ bt.calls[p].flow /\ bt.calls[p].pc # "returned"}

(***************************************************************************)
(* C36: the agent accepts a RequestPinCode, RequestPasskey,                *)
(* RequestConfirmation or RequestAuthorization for a device only while a   *)
(* pairDevice call for it is in progress; a device is in pairingInProgress *)
(* exactly from the start of its pairDevice call until that call returns,  *)
(* on every exit path; and a second pairDevice for a device in progress    *)
(* starts no second flow.                                                  *)
(* Refuted: the finally block removes the device first and then awaits the *)
(* reset of Pairable, so the call has not returned when the device has     *)
(* left the set, and a second pairDevice made meanwhile starts a second    *)
(* flow beside it.                                                         *)
(***************************************************************************)
InProgressWhileCalled ==
  \A dev \in BtDevices :
    /\ dev \in bt.inProgress <=> Flows(dev) # {}
    /\ Cardinality(Flows(dev)) <= 1

AcceptsOnlyInProgress ==
  \A dev \in BtDevices, method \in AgentMethods :
    (BtAgent(dev, method) /\ bt'.agent.accepted) => Flows(dev) # {}

C36_PairingGate ==
  /\ []InProgressWhileCalled
  /\ [][AcceptsOnlyInProgress]_vars

(***************************************************************************)
(* SpecWifi: requests for a connection test, with and without a network to *)
(* go back to.                                                             *)
(***************************************************************************)
InitWifi ==
  /\ InitPads({})
  /\ InitKiosk({TRUE})
  /\ nm = NoProbe /\ ev = NoEvent /\ rt = NoTrip

NextWifi == \E usable \in BOOLEAN : WifiStart(usable)

SpecWifi == InitWifi /\ [][NextWifi]_vars

=============================================================================
